---- MODULE Spec2Model ----
(***************************************************************************)
(* Model of the kube-foundry backend request handlers (hono-app.ts):       *)
(* the provider installation routes (install / upgrade / uninstall /       *)
(* status / commands) and the deployment-creation route, together with the *)
(* request-validation schemas of lib/validation.ts.                        *)
(*                                                                         *)
(* One request is processed per behaviour.  Every `await` of a handler is  *)
(* one step; the answers of the external collaborators (helm CLI, cluster) *)
(* are chosen nondeterministically at the step that asks for them.         *)
(***************************************************************************)
EXTENDS Integers, Sequences, FiniteSets, TLC

VARIABLES
    op,            \* which route handles the request
    id,            \* :id path parameter (provider id)
    repos,         \* provider.getHelmRepos()  of the requested provider
    charts,        \* provider.getHelmCharts() of the requested provider
    pc,            \* position inside the handler
    i,             \* loop index of the running for-loop
    log,           \* calls made to helmService / kubernetesService, in order
    results,       \* the `results` array being collected
    helmSuccess,   \* result.success of helmService.installProvider
    currentStatus, \* `currentStatus` local of the install handler
    resp,          \* HTTP response produced (status 0: none yet)
    name,          \* body.name of a deployment request
    namespace,     \* body.namespace of a deployment request
    restValid,     \* whether the other fields of the body satisfy the schema
    fit,           \* what happened inside the GPU-fit try block
    gpuWarnings,   \* `gpuWarnings` local of POST /deployments
    created,       \* number of kubernetesService.createDeployment calls
    fn,            \* library function that was applied ("none": not yet)
    arg,           \* the argument it is applied to
    ret,           \* the value it returned
    reqs,          \* locals of each of several requests in flight at once
    http,          \* a request passing through the app's middleware
    storedConfig,  \* the configuration kept by configService
    build,         \* a run of AikitService.buildImage
    form           \* state of the deployment form component

vars == <<op, id, repos, charts, pc, i, log, results, helmSuccess,
          currentStatus, resp, name, namespace, restValid, fit,
          gpuWarnings, created, fn, arg, ret, reqs, http, storedConfig,
          build, form>>

providerVars == <<repos, charts>>
deployVars == <<name, namespace, restValid, fit, gpuWarnings, created>>
calcVars == <<fn, arg, ret>>
otherVars == <<http, storedConfig, build, form>>
auxVars == <<reqs, otherVars>>

\* Nothing but the one request, or the one function call, is going on.
NoOther ==
    /\ http = <<>>
    /\ storedConfig = <<>>
    /\ build = <<>>
    /\ form = <<>>

NoAux ==
    /\ reqs = <<>>
    /\ NoOther

----------------------------------------------------------------------------
(* Bounds *)

MaxCharts == 3
MaxRepos == 2
MaxTail == 2
MaxGpus == 2

----------------------------------------------------------------------------
(* Provider registry *)

ProviderIds == {"dynamo", "kuberay", "kaito"}

RequestIds == ProviderIds \cup {"no-such-provider"}

HasProvider(p) == p \in ProviderIds

\* A provider's chart / repo list: distinct entries, named by their position
\* in the declared order.
ChartLists == {[k \in 1..n |-> k] : n \in 1..MaxCharts}
RepoLists == {[k \in 1..n |-> k] : n \in 0..MaxRepos}

----------------------------------------------------------------------------
(* Values exchanged with the collaborators *)

Statuses == [installed : BOOLEAN, operatorRunning : BOOLEAN]

NoStatus == [installed |-> FALSE, operatorRunning |-> FALSE]

\* One call to a collaborator: which method, on which chart/repo (0: none),
\* whether it succeeded, and for a cluster status query the status it returned.
Event(call, n, ok, st) == [call |-> call, n |-> n, ok |-> ok, status |-> st]

HelmCalls == {"checkHelmAvailable", "repoAdd", "repoUpdate", "install",
              "upgrade", "uninstall"}

\* The helm calls that change something (every helm call but the probe).
ProvisioningCalls == HelmCalls \ {"checkHelmAvailable"}

ClusterCalls == {"checkProviderInstallation", "getClusterGpuCapacity",
                 "createDeployment"}

CallsOf(kinds) == SelectSeq(log, LAMBDA e : e.call \in kinds)

Reverse(s) == [k \in 1..Len(s) |-> s[Len(s) + 1 - k]]

StepResult(step, n, ok) == [step |-> step, n |-> n, success |-> ok]

----------------------------------------------------------------------------
(* Responses *)

NoResp ==
    [status |-> 0, success |-> FALSE, alreadyInstalled |-> FALSE,
     hasStatus |-> FALSE, installationStatus |-> NoStatus,
     hasResults |-> FALSE, results |-> <<>>,
     hasWarnings |-> FALSE, warnings |-> <<>>, errors |-> <<>>]

\* throw new HTTPException(code, ...) as rendered by app.onError: an error
\* body carrying only a message and the status code.
HttpError(code, msgs) == [NoResp EXCEPT !.status = code, !.errors = msgs]

Respond(r) == /\ resp' = r
              /\ pc' = "done"

----------------------------------------------------------------------------
(* GET /providers/:id/status and GET /providers/:id/commands *)

\* Mutant: the status route does not look the provider up.
StatusLookupMissing ==
    /\ op = "status" /\ pc = "start"
    /\ pc' = "query" /\ resp' = resp
    /\ UNCHANGED <<auxVars, calcVars, op, id, providerVars, i, log, results, helmSuccess,
                   currentStatus, deployVars>>

StatusLookup ==
    /\ op = "status" /\ pc = "start"
    /\ IF ~HasProvider(id)
          THEN Respond(HttpError(404, <<"Provider not found">>))
          ELSE pc' = "query" /\ resp' = resp
    /\ UNCHANGED <<auxVars, calcVars, op, id, providerVars, i, log, results, helmSuccess,
                   currentStatus, deployVars>>

StatusQuery ==
    /\ op = "status" /\ pc = "query"
    /\ \E st \in Statuses :
          /\ log' = Append(log, Event("checkProviderInstallation", 0, TRUE, st))
          /\ Respond([NoResp EXCEPT !.status = 200, !.success = TRUE,
                                    !.hasStatus = TRUE,
                                    !.installationStatus = st])
    /\ UNCHANGED <<auxVars, calcVars, op, id, providerVars, i, results, helmSuccess,
                   currentStatus, deployVars>>

CommandsHandler ==
    /\ op = "commands" /\ pc = "start"
    /\ IF ~HasProvider(id)
          THEN Respond(HttpError(404, <<"Provider not found">>))
          ELSE Respond([NoResp EXCEPT !.status = 200, !.success = TRUE])
    /\ UNCHANGED <<auxVars, calcVars, op, id, providerVars, i, log, results, helmSuccess,
                   currentStatus, deployVars>>

----------------------------------------------------------------------------
(* POST /providers/:id/install *)

InstallLookup ==
    /\ op = "install" /\ pc = "start"
    /\ IF ~HasProvider(id)
          THEN Respond(HttpError(404, <<"Provider not found">>))
          ELSE pc' = "helm" /\ resp' = resp
    /\ UNCHANGED <<auxVars, calcVars, op, id, providerVars, i, log, results, helmSuccess,
                   currentStatus, deployVars>>

\* helmService.checkHelmAvailable(): the handler stops with 400 when the
\* CLI is not available.
InstallCheckHelm ==
    /\ op = "install" /\ pc = "helm"
    /\ \E avail \in BOOLEAN :
          /\ log' = Append(log, Event("checkHelmAvailable", 0, avail, NoStatus))
          /\ IF ~avail
                THEN Respond(HttpError(400, <<"Helm CLI not available">>))
                ELSE pc' = "checkInstalled" /\ resp' = resp
    /\ UNCHANGED <<auxVars, calcVars, op, id, providerVars, i, results, helmSuccess,
                   currentStatus, deployVars>>

\* Mutant: the already-installed short circuit is missing.
InstallNeverShortCircuits(st) == FALSE

\* if (currentStatus.installed) return { success, alreadyInstalled }
InstallShortCircuits(st) == st.installed

\* First step of helmService.installProvider(repos, charts): the repo loop,
\* or the repo update when the provider declares no repository.
FirstInstallStep == IF Len(repos) = 0 THEN "repoUpdate" ELSE "repoAdd"

InstallCheckInstalled ==
    /\ op = "install" /\ pc = "checkInstalled"
    /\ \E st \in Statuses :
          /\ log' = Append(log, Event("checkProviderInstallation", 0, TRUE, st))
          /\ currentStatus' = st
          /\ IF InstallShortCircuits(st)
                THEN Respond([NoResp EXCEPT !.status = 200, !.success = TRUE,
                                            !.alreadyInstalled = TRUE])
                ELSE pc' = FirstInstallStep /\ resp' = resp
    /\ i' = 1
    /\ UNCHANGED <<auxVars, calcVars, op, id, providerVars, results, helmSuccess, deployVars>>

\* helmService.installProvider: repo add for each repository in declared
\* order; the first failing step ends the run with success = false and the
\* results collected so far.
InstallRepoAdd ==
    /\ op = "install" /\ pc = "repoAdd"
    /\ i <= Len(repos)
    /\ \E ok \in BOOLEAN :
          /\ log' = Append(log, Event("repoAdd", repos[i], ok, NoStatus))
          /\ results' = Append(results, StepResult("repoAdd", repos[i], ok))
          /\ IF ~ok
                THEN /\ helmSuccess' = FALSE
                     /\ pc' = "result"
                     /\ i' = i
                ELSE /\ helmSuccess' = helmSuccess
                     /\ pc' = IF i = Len(repos) THEN "repoUpdate" ELSE "repoAdd"
                     /\ i' = i + 1
    /\ UNCHANGED <<auxVars, calcVars, op, id, providerVars, currentStatus, resp, deployVars>>

InstallRepoUpdate ==
    /\ op = "install" /\ pc = "repoUpdate"
    /\ \E ok \in BOOLEAN :
          /\ log' = Append(log, Event("repoUpdate", 0, ok, NoStatus))
          /\ results' = Append(results, StepResult("repoUpdate", 0, ok))
          /\ IF ~ok
                THEN /\ helmSuccess' = FALSE
                     /\ pc' = "result"
                ELSE /\ helmSuccess' = (Len(charts) = 0)
                     /\ pc' = IF Len(charts) = 0 THEN "result" ELSE "chart"
    /\ i' = 1
    /\ UNCHANGED <<auxVars, calcVars, op, id, providerVars, currentStatus, resp, deployVars>>

InstallChart ==
    /\ op = "install" /\ pc = "chart"
    /\ i <= Len(charts)
    /\ \E ok \in BOOLEAN :
          /\ log' = Append(log, Event("install", charts[i], ok, NoStatus))
          /\ results' = Append(results, StepResult("install", charts[i], ok))
          /\ IF ~ok
                THEN /\ helmSuccess' = FALSE
                     /\ pc' = "result"
                     /\ i' = i
                ELSE /\ helmSuccess' = (i = Len(charts))
                     /\ pc' = IF i = Len(charts) THEN "result" ELSE "chart"
                     /\ i' = i + 1
    /\ UNCHANGED <<auxVars, calcVars, op, id, providerVars, currentStatus, resp, deployVars>>

\* Mutant: the status seen before provisioning is reported.
InstallReportedStatusStale(current, verify) == current

\* installationStatus: verifyStatus
InstallReportedStatus(current, verify) == verify

\* The install answer with a verification that disagrees raised as an error.
InstallFinishStrict ==
    /\ op = "install" /\ pc = "result"
    /\ IF helmSuccess
          THEN \E st \in Statuses :
                  /\ log' = Append(log, Event("checkProviderInstallation", 0,
                                              TRUE, st))
                  /\ IF st.installed
                        THEN Respond([NoResp EXCEPT
                                 !.status = 200, !.success = TRUE,
                                 !.hasStatus = TRUE,
                                 !.installationStatus = st,
                                 !.hasResults = TRUE,
                                 !.results = results])
                        ELSE Respond(HttpError(500, <<"Not installed">>))
          ELSE /\ log' = log
               /\ Respond(HttpError(500, <<"Installation failed at step">>))
    /\ UNCHANGED <<auxVars, calcVars, op, id, providerVars, i, results, helmSuccess,
                   currentStatus, deployVars>>

\* if (result.success) { verifyStatus = await checkProviderInstallation(id);
\* return {...} } else { throw new HTTPException(500, ...) }
InstallFinish ==
    /\ op = "install" /\ pc = "result"
    /\ IF helmSuccess
          THEN \E st \in Statuses :
                  /\ log' = Append(log, Event("checkProviderInstallation", 0,
                                              TRUE, st))
                  /\ Respond([NoResp EXCEPT
                                 !.status = 200, !.success = TRUE,
                                 !.hasStatus = TRUE,
                                 !.installationStatus =
                                     InstallReportedStatus(currentStatus, st),
                                 !.hasResults = TRUE,
                                 !.results = results])
          ELSE /\ log' = log
               /\ Respond(HttpError(500, <<"Installation failed at step">>))
    /\ UNCHANGED <<auxVars, calcVars, op, id, providerVars, i, results, helmSuccess,
                   currentStatus, deployVars>>

----------------------------------------------------------------------------
(* POST /providers/:id/upgrade *)

UpgradeLookup ==
    /\ op = "upgrade" /\ pc = "start"
    /\ IF ~HasProvider(id)
          THEN Respond(HttpError(404, <<"Provider not found">>))
          ELSE pc' = "helm" /\ resp' = resp
    /\ UNCHANGED <<auxVars, calcVars, op, id, providerVars, i, log, results, helmSuccess,
                   currentStatus, deployVars>>

\* Mutant: the upgrade goes on although the CLI is not available.
UpgradeCheckHelmIgnored ==
    /\ op = "upgrade" /\ pc = "helm"
    /\ \E avail \in BOOLEAN :
          /\ log' = Append(log, Event("checkHelmAvailable", 0, avail, NoStatus))
          /\ pc' = IF Len(repos) = 0 THEN "repoUpdate" ELSE "repoAdd"
          /\ resp' = resp
    /\ i' = 1
    /\ UNCHANGED <<auxVars, calcVars, op, id, providerVars, results, helmSuccess, currentStatus,
                   deployVars>>

UpgradeCheckHelm ==
    /\ op = "upgrade" /\ pc = "helm"
    /\ \E avail \in BOOLEAN :
          /\ log' = Append(log, Event("checkHelmAvailable", 0, avail, NoStatus))
          /\ IF ~avail
                THEN Respond(HttpError(400, <<"Helm CLI not available">>))
                ELSE /\ pc' = IF Len(repos) = 0 THEN "repoUpdate" ELSE "repoAdd"
                     /\ resp' = resp
    /\ i' = 1
    /\ UNCHANGED <<auxVars, calcVars, op, id, providerVars, results, helmSuccess, currentStatus,
                   deployVars>>

\* for (const repo of repos) { await helmService.repoAdd(repo); }
\* The result of repoAdd is not looked at.
UpgradeRepoAdd ==
    /\ op = "upgrade" /\ pc = "repoAdd"
    /\ i <= Len(repos)
    /\ \E ok \in BOOLEAN :
          log' = Append(log, Event("repoAdd", repos[i], ok, NoStatus))
    /\ pc' = IF i = Len(repos) THEN "repoUpdate" ELSE "repoAdd"
    /\ i' = i + 1
    /\ UNCHANGED <<auxVars, calcVars, op, id, providerVars, results, helmSuccess, currentStatus,
                   resp, deployVars>>

\* await helmService.repoUpdate();  (result not looked at)
UpgradeRepoUpdate ==
    /\ op = "upgrade" /\ pc = "repoUpdate"
    /\ \E ok \in BOOLEAN :
          log' = Append(log, Event("repoUpdate", 0, ok, NoStatus))
    /\ pc' = IF Len(charts) = 0 THEN "verify" ELSE "chart"
    /\ i' = 1
    /\ UNCHANGED <<auxVars, calcVars, op, id, providerVars, results, helmSuccess, currentStatus,
                   resp, deployVars>>

\* The upgrade loop without its throw: the next chart is upgraded whatever
\* the outcome of this one.
UpgradeChartContinues ==
    /\ op = "upgrade" /\ pc = "chart"
    /\ i <= Len(charts)
    /\ \E ok \in BOOLEAN :
          /\ log' = Append(log, Event("upgrade", charts[i], ok, NoStatus))
          /\ results' = Append(results, StepResult("upgrade", charts[i], ok))
          /\ pc' = IF i = Len(charts) THEN "verify" ELSE "chart"
          /\ resp' = resp
          /\ i' = i + 1
    /\ UNCHANGED <<auxVars, calcVars, op, id, providerVars, helmSuccess, currentStatus,
                   deployVars>>

\* for (const chart of charts) { upgrade; results.push; if (!success) throw }
UpgradeChart ==
    /\ op = "upgrade" /\ pc = "chart"
    /\ i <= Len(charts)
    /\ \E ok \in BOOLEAN :
          /\ log' = Append(log, Event("upgrade", charts[i], ok, NoStatus))
          /\ results' = Append(results, StepResult("upgrade", charts[i], ok))
          /\ IF ~ok
                THEN /\ Respond(HttpError(500, <<"Upgrade failed for chart">>))
                     /\ i' = i
                ELSE /\ pc' = IF i = Len(charts) THEN "verify" ELSE "chart"
                     /\ resp' = resp
                     /\ i' = i + 1
    /\ UNCHANGED <<auxVars, calcVars, op, id, providerVars, helmSuccess, currentStatus,
                   deployVars>>

UpgradeVerify ==
    /\ op = "upgrade" /\ pc = "verify"
    /\ \E st \in Statuses :
          /\ log' = Append(log, Event("checkProviderInstallation", 0, TRUE, st))
          /\ Respond([NoResp EXCEPT !.status = 200, !.success = TRUE,
                                    !.hasStatus = TRUE,
                                    !.installationStatus = st,
                                    !.hasResults = TRUE,
                                    !.results = results])
    /\ UNCHANGED <<auxVars, calcVars, op, id, providerVars, i, results, helmSuccess,
                   currentStatus, deployVars>>

----------------------------------------------------------------------------
(* POST /providers/:id/uninstall *)

UninstallLookup ==
    /\ op = "uninstall" /\ pc = "start"
    /\ IF ~HasProvider(id)
          THEN Respond(HttpError(404, <<"Provider not found">>))
          ELSE pc' = "helm" /\ resp' = resp
    /\ UNCHANGED <<auxVars, calcVars, op, id, providerVars, i, log, results, helmSuccess,
                   currentStatus, deployVars>>

UninstallCheckHelm ==
    /\ op = "uninstall" /\ pc = "helm"
    /\ \E avail \in BOOLEAN :
          /\ log' = Append(log, Event("checkHelmAvailable", 0, avail, NoStatus))
          /\ IF ~avail
                THEN Respond(HttpError(400, <<"Helm CLI not available">>))
                ELSE /\ pc' = IF Len(charts) = 0 THEN "verify" ELSE "chart"
                     /\ resp' = resp
    /\ i' = 1
    /\ UNCHANGED <<auxVars, calcVars, op, id, providerVars, results, helmSuccess, currentStatus,
                   deployVars>>

\* Mutant: charts are uninstalled in their declared order.
UninstallOrderDeclared(cs) == cs

\* [...charts].reverse()
UninstallOrder(cs) == Reverse(cs)

\* Whether the uninstall loop goes on after a chart whose uninstall returned
\* `ok`: the loop body has no break, return or throw.
UninstallContinues(ok) == TRUE

\* for (const chart of [...charts].reverse()) { uninstall; results.push }
UninstallChart ==
    /\ op = "uninstall" /\ pc = "chart"
    /\ i <= Len(charts)
    /\ LET c == UninstallOrder(charts)[i] IN
       \E ok \in BOOLEAN :
          /\ log' = Append(log, Event("uninstall", c, ok, NoStatus))
          /\ results' = Append(results, StepResult("uninstall", c, ok))
          /\ pc' = IF i = Len(charts) \/ ~UninstallContinues(ok)
                      THEN "verify" ELSE "chart"
    /\ i' = i + 1
    /\ UNCHANGED <<auxVars, calcVars, op, id, providerVars, helmSuccess, currentStatus, resp,
                   deployVars>>

\* return c.json({ success: true, ..., installationStatus: verifyStatus,
\* results })
UninstallVerify ==
    /\ op = "uninstall" /\ pc = "verify"
    /\ \E st \in Statuses :
          /\ log' = Append(log, Event("checkProviderInstallation", 0, TRUE, st))
          /\ Respond([NoResp EXCEPT !.status = 200, !.success = TRUE,
                                    !.hasStatus = TRUE,
                                    !.installationStatus = st,
                                    !.hasResults = TRUE,
                                    !.results = results])
    /\ UNCHANGED <<auxVars, calcVars, op, id, providerVars, i, results, helmSuccess,
                   currentStatus, deployVars>>

----------------------------------------------------------------------------
(* The provider-route specification: one request to one of the five        *)
(* /providers/:id routes.                                                  *)

ProviderOps == {"install", "upgrade", "uninstall", "status", "commands"}

Init ==
    /\ op \in ProviderOps
    /\ id \in RequestIds
    /\ repos \in RepoLists
    /\ charts \in ChartLists
    /\ pc = "start"
    /\ i = 1
    /\ log = <<>>
    /\ results = <<>>
    /\ helmSuccess = FALSE
    /\ currentStatus = NoStatus
    /\ resp = NoResp
    /\ name = <<>>
    /\ namespace = <<>>
    /\ restValid = FALSE
    /\ fit = "none"
    /\ gpuWarnings = <<>>
    /\ created = 0
    /\ fn = "none"
    /\ arg = <<>>
    /\ ret = <<>>
    /\ NoAux

Next ==
    \/ InstallLookup \/ InstallCheckHelm \/ InstallCheckInstalled
    \/ InstallRepoAdd \/ InstallRepoUpdate \/ InstallChart \/ InstallFinish
    \/ UpgradeLookup \/ UpgradeCheckHelm \/ UpgradeRepoAdd
    \/ UpgradeRepoUpdate \/ UpgradeChart \/ UpgradeVerify
    \/ UninstallLookup \/ UninstallCheckHelm \/ UninstallChart
    \/ UninstallVerify
    \/ StatusLookup \/ StatusQuery \/ CommandsHandler

Spec == Init /\ [][Next]_vars

----------------------------------------------------------------------------
(* Strings and the naming schemas of lib/validation.ts                     *)
(*                                                                         *)
(* A string is a sequence of runs [c, n]: n copies of character c.  "a"    *)
(* and "0" stand for a lowercase letter and a digit, "A" for a character   *)
(* that is none of lowercase letter, digit, hyphen, dot.                   *)

NamespaceMaxLen == 63
ResourceNameMaxLen == 253
KaitoNameMaxLen == 63

Run(c, n) == [c |-> c, n |-> n]

RECURSIVE StrLen(_)
StrLen(s) == IF s = <<>> THEN 0 ELSE Head(s).n + StrLen(Tail(s))

LowerAlnum == {"a", "0"}

\* Whether s matches ^[a-z0-9]([<inner>]*[a-z0-9])?$ where <inner> is the
\* character class `inner`.
MatchesNameRegex(s, inner) ==
    /\ Len(s) >= 1
    /\ s[1].c \in LowerAlnum
    /\ s[Len(s)].c \in LowerAlnum
    /\ \A k \in 1..Len(s) : s[k].c \in inner

\* namespaceSchema
NamespaceSchemaOk(s) ==
    /\ StrLen(s) >= 1
    /\ StrLen(s) <= NamespaceMaxLen
    /\ MatchesNameRegex(s, LowerAlnum \cup {"-"})

\* resourceNameSchema
ResourceNameSchemaOk(s) ==
    /\ StrLen(s) >= 1
    /\ StrLen(s) <= ResourceNameMaxLen
    /\ MatchesNameRegex(s, LowerAlnum \cup {".", "-"})

\* kaitoDeploymentConfigSchema.name
KaitoNameOk(s) ==
    /\ StrLen(s) >= 1
    /\ StrLen(s) <= KaitoNameMaxLen
    /\ MatchesNameRegex(s, LowerAlnum \cup {"-"})

\* kaitoDeploymentConfigSchema.namespace: z.string().min(1)
KaitoNamespaceOk(s) == StrLen(s) >= 1

\* provider.validateConfig(body) of the KAITO provider: the schema applied to
\* the body; every failing field contributes its message.
KaitoValidateConfig(nm, ns, rest) ==
    LET errors == (IF KaitoNameOk(nm) THEN <<>> ELSE <<"name">>)
                  \o (IF KaitoNamespaceOk(ns) THEN <<>> ELSE <<"namespace">>)
                  \o (IF rest THEN <<>> ELSE <<"model configuration">>)
    IN  [valid |-> errors = <<>>, errors |-> errors]

\* Request strings: empty, or a first run of 1 or 63 equal characters
\* followed by at most MaxTail single characters.
InputChars == {"a", "-", ".", "A"}

RECURSIVE Tails(_)
Tails(n) ==
    IF n = 0 THEN {<<>>}
    ELSE LET shorter == Tails(n - 1)
         IN  shorter \cup {Append(t, Run(c, 1)) :
                               t \in {u \in shorter : Len(u) = n - 1},
                               c \in InputChars}

InputStrings ==
    {<<>>} \cup {<<Run(c, n)>> \o t :
                    c \in InputChars, n \in {1, NamespaceMaxLen},
                    t \in Tails(MaxTail)}

----------------------------------------------------------------------------
(* GPU fit check (services/gpuValidation) *)

Capacities ==
    {[availableGpus |-> a, maxContiguousAvailable |-> m] :
        a \in 0..MaxGpus, m \in 0..MaxGpus}

Topologies ==
    {[totalGpus |-> t, maxGpusPerPod |-> p] : t \in 1..MaxGpus, p \in 1..MaxGpus}

MaxOf(a, b) == IF a >= b THEN a ELSE b

\* The first check made strict: as many free GPUs as needed is not enough.
ValidateGpuFitStrict(topo, cap, modelMinGpus) ==
    LET w1 == IF cap.availableGpus > MaxOf(topo.totalGpus, modelMinGpus)
                 THEN <<>> ELSE <<"insufficient available GPUs">>
        w2 == IF topo.maxGpusPerPod <= cap.maxContiguousAvailable
                 THEN <<>> ELSE <<"no node with enough free GPUs">>
    IN  [fits |-> (w1 \o w2 = <<>>), warnings |-> w1 \o w2]

\* validateGpuFit(config, capacity, modelMinGpus): two independent checks,
\* one warning per failing check.
ValidateGpuFit(topo, cap, modelMinGpus) ==
    LET w1 == IF cap.availableGpus >= MaxOf(topo.totalGpus, modelMinGpus)
                 THEN <<>> ELSE <<"insufficient available GPUs">>
        w2 == IF topo.maxGpusPerPod <= cap.maxContiguousAvailable
                 THEN <<>> ELSE <<"no node with enough free GPUs">>
    IN  [fits |-> (w1 \o w2 = <<>>), warnings |-> w1 \o w2]

\* formatGpuWarnings(result): the warnings as display strings.
FormatGpuWarnings(result) == result.warnings

----------------------------------------------------------------------------
(* POST /deployments (active provider: KAITO) *)

\* Mutant: an invalid config is not rejected.
DeployRejectsNever(v) == FALSE

\* if (!validationResult.valid) throw new HTTPException(400, ...)
DeployRejects(v) == ~v.valid

DeployValidate ==
    /\ op = "deploy" /\ pc = "start"
    /\ LET v == KaitoValidateConfig(name, namespace, restValid) IN
          IF DeployRejects(v)
             THEN Respond(HttpError(400, v.errors))
             ELSE pc' = "gpuFit" /\ resp' = resp
    /\ UNCHANGED <<auxVars, calcVars, op, id, providerVars, i, log, results, helmSuccess,
                   currentStatus, deployVars>>

\* Mutant: a failed capacity query is not caught.
DeployGpuFitPropagates ==
    /\ op = "deploy" /\ pc = "gpuFit"
    /\ \/ /\ log' = Append(log, Event("getClusterGpuCapacity", 0, FALSE,
                                      NoStatus))
          /\ fit' = "capacityFailed"
          /\ gpuWarnings' = <<>>
          /\ Respond(HttpError(500, <<"capacity query failed">>))
       \/ \E cap \in Capacities, topo \in Topologies, modelMinGpus \in 1..MaxGpus :
             LET r == ValidateGpuFit(topo, cap, modelMinGpus) IN
             /\ topo.maxGpusPerPod <= topo.totalGpus
             /\ cap.maxContiguousAvailable <= cap.availableGpus
             /\ log' = Append(log, Event("getClusterGpuCapacity", 0, TRUE,
                                         NoStatus))
             /\ fit' = IF r.fits THEN "fits" ELSE "doesNotFit"
             /\ gpuWarnings' = IF ~r.fits THEN FormatGpuWarnings(r) ELSE <<>>
             /\ pc' = "create"
             /\ resp' = resp
    /\ UNCHANGED <<auxVars, calcVars, op, id, providerVars, i, results, helmSuccess,
                   currentStatus, name, namespace, restValid, created>>

\* The try block: capacity query, validateGpuFit, and the warnings when the
\* result does not fit.  An exception is caught and logged.
DeployGpuFit ==
    /\ op = "deploy" /\ pc = "gpuFit"
    /\ \/ /\ log' = Append(log, Event("getClusterGpuCapacity", 0, FALSE,
                                      NoStatus))
          /\ fit' = "capacityFailed"
          /\ gpuWarnings' = <<>>
       \/ \E cap \in Capacities, topo \in Topologies, modelMinGpus \in 1..MaxGpus :
             LET r == ValidateGpuFit(topo, cap, modelMinGpus) IN
             /\ topo.maxGpusPerPod <= topo.totalGpus
             /\ cap.maxContiguousAvailable <= cap.availableGpus
             /\ log' = Append(log, Event("getClusterGpuCapacity", 0, TRUE,
                                         NoStatus))
             /\ fit' = IF r.fits THEN "fits" ELSE "doesNotFit"
             /\ gpuWarnings' = IF ~r.fits THEN FormatGpuWarnings(r) ELSE <<>>
    /\ pc' = "create"
    /\ UNCHANGED <<auxVars, calcVars, op, id, providerVars, i, results, helmSuccess,
                   currentStatus, resp, name, namespace, restValid, created>>

\* await kubernetesService.createDeployment(config); return c.json({...,
\* ...(gpuWarnings.length > 0 && { warnings: gpuWarnings }) }, 201)
DeployCreate ==
    /\ op = "deploy" /\ pc = "create"
    /\ created' = created + 1
    /\ \E ok \in BOOLEAN :
          /\ log' = Append(log, Event("createDeployment", 0, ok, NoStatus))
          /\ IF ok
                THEN Respond([NoResp EXCEPT
                                 !.status = 201, !.success = TRUE,
                                 !.hasWarnings = (Len(gpuWarnings) > 0),
                                 !.warnings = gpuWarnings])
                ELSE Respond(HttpError(500, <<"createDeployment failed">>))
    /\ UNCHANGED <<auxVars, calcVars, op, id, providerVars, i, results, helmSuccess,
                   currentStatus, name, namespace, restValid, fit,
                   gpuWarnings>>

InitDeploy ==
    /\ op = "deploy"
    /\ id = "kaito"
    /\ repos = <<>>
    /\ charts = <<>>
    /\ pc = "start"
    /\ i = 1
    /\ log = <<>>
    /\ results = <<>>
    /\ helmSuccess = FALSE
    /\ currentStatus = NoStatus
    /\ resp = NoResp
    /\ name \in InputStrings
    /\ namespace \in InputStrings
    /\ restValid \in BOOLEAN
    /\ fit = "none"
    /\ gpuWarnings = <<>>
    /\ created = 0
    /\ fn = "none"
    /\ arg = <<>>
    /\ ret = <<>>
    /\ NoAux

NextDeploy == DeployValidate \/ DeployGpuFit \/ DeployCreate

SpecDeploy == InitDeploy /\ [][NextDeploy]_vars

----------------------------------------------------------------------------
(* Two overlapping POST /providers/:id/install requests for one provider.  *)
(*                                                                         *)
(* Each request runs the install handler with its own locals (reqs[r]);    *)
(* the requests interleave at every await.  The calls of both requests go  *)
(* to the same helm CLI and the same cluster, recorded in `log` with the   *)
(* request that made them.  The provider has one repo and one chart, so    *)
(* both requests work on the same release.                                 *)

Requests == {1, 2}

RaceRepos == <<1>>
RaceCharts == <<1>>

RaceEvent(r, call, n, ok, installed) ==
    [req |-> r, call |-> call, n |-> n, ok |-> ok, installed |-> installed]

RaceCallsBy(r, kinds) ==
    SelectSeq(log, LAMBDA e : e.req = r /\ e.call \in kinds)

\* The cluster reports the provider installed once its chart has been
\* installed successfully.
ReleaseInstalled ==
    \E k \in 1..Len(log) : log[k].call = "install" /\ log[k].ok

NoLocals ==
    [pc |-> "helm", observed |-> "nothing", helmSuccess |-> FALSE,
     status |-> 0, alreadyInstalled |-> FALSE]

RaceStep(r, locals) == reqs' = [reqs EXCEPT ![r] = locals]

RaceCheckHelm(r) ==
    /\ reqs[r].pc = "helm"
    /\ \E avail \in BOOLEAN :
          /\ log' = Append(log, RaceEvent(r, "checkHelmAvailable", 0, avail,
                                          FALSE))
          /\ RaceStep(r, IF avail
                            THEN [reqs[r] EXCEPT !.pc = "check"]
                            ELSE [reqs[r] EXCEPT !.pc = "done",
                                                 !.status = 400])
    /\ UNCHANGED <<calcVars, op, id, providerVars, pc, i, results,
                   helmSuccess, currentStatus, resp, deployVars, otherVars>>

\* A request that found another install of the provider in flight is
\* turned away.
RaceAdmitsSingleFlight(r) ==
    \A o \in Requests \ {r} :
        reqs[o].pc \notin {"repoAdd", "repoUpdate", "chart", "result"}

\* Whether a request that observed installed = false goes on to
\* provisioning: the handler consults nothing between the two.
RaceAdmits(r) == TRUE

RaceCheckInstalled(r) ==
    /\ reqs[r].pc = "check"
    /\ log' = Append(log, RaceEvent(r, "checkProviderInstallation", 0, TRUE,
                                    ReleaseInstalled))
    /\ RaceStep(r,
          IF ReleaseInstalled
             THEN [reqs[r] EXCEPT !.pc = "done", !.observed = "installed",
                                  !.status = 200, !.alreadyInstalled = TRUE]
          ELSE IF RaceAdmits(r)
             THEN [reqs[r] EXCEPT !.pc = "repoAdd",
                                  !.observed = "notInstalled"]
             ELSE [reqs[r] EXCEPT !.pc = "done",
                                  !.observed = "notInstalled",
                                  !.status = 409])
    /\ UNCHANGED <<calcVars, op, id, providerVars, pc, i, results,
                   helmSuccess, currentStatus, resp, deployVars, otherVars>>

\* helmService.installProvider: repo add, repo update, chart install; the
\* first failing step ends the run.
RaceProvision(r) ==
    /\ reqs[r].pc \in {"repoAdd", "repoUpdate", "chart"}
    /\ \E ok \in BOOLEAN :
          LET here == reqs[r].pc
              call == CASE here = "repoAdd" -> "repoAdd"
                        [] here = "repoUpdate" -> "repoUpdate"
                        [] here = "chart" -> "install"
              n == CASE here = "repoAdd" -> RaceRepos[1]
                     [] here = "repoUpdate" -> 0
                     [] here = "chart" -> RaceCharts[1]
              next == CASE here = "repoAdd" -> "repoUpdate"
                        [] here = "repoUpdate" -> "chart"
                        [] here = "chart" -> "result"
          IN  /\ log' = Append(log, RaceEvent(r, call, n, ok, FALSE))
              /\ RaceStep(r, IF ok
                                THEN [reqs[r] EXCEPT
                                         !.pc = next,
                                         !.helmSuccess = (here = "chart")]
                                ELSE [reqs[r] EXCEPT !.pc = "result",
                                                     !.helmSuccess = FALSE])
    /\ UNCHANGED <<calcVars, op, id, providerVars, pc, i, results,
                   helmSuccess, currentStatus, resp, deployVars, otherVars>>

RaceFinish(r) ==
    /\ reqs[r].pc = "result"
    /\ IF reqs[r].helmSuccess
          THEN /\ log' = Append(log, RaceEvent(r, "checkProviderInstallation",
                                               0, TRUE, ReleaseInstalled))
               /\ RaceStep(r, [reqs[r] EXCEPT !.pc = "done", !.status = 200])
          ELSE /\ log' = log
               /\ RaceStep(r, [reqs[r] EXCEPT !.pc = "done", !.status = 500])
    /\ UNCHANGED <<calcVars, op, id, providerVars, pc, i, results,
                   helmSuccess, currentStatus, resp, deployVars, otherVars>>

InitRace ==
    /\ op = "install"
    /\ id \in ProviderIds
    /\ repos = RaceRepos
    /\ charts = RaceCharts
    /\ pc = "done"
    /\ i = 1
    /\ log = <<>>
    /\ results = <<>>
    /\ helmSuccess = FALSE
    /\ currentStatus = NoStatus
    /\ resp = NoResp
    /\ name = <<>>
    /\ namespace = <<>>
    /\ restValid = FALSE
    /\ fit = "none"
    /\ gpuWarnings = <<>>
    /\ created = 0
    /\ fn = "none"
    /\ arg = <<>>
    /\ ret = <<>>
    /\ reqs = [r \in Requests |-> NoLocals]
    /\ NoOther

NextRace ==
    \E r \in Requests :
        \/ RaceCheckHelm(r)
        \/ RaceCheckInstalled(r)
        \/ RaceProvision(r)
        \/ RaceFinish(r)

SpecRace == InitRace /\ [][NextRace]_vars

----------------------------------------------------------------------------
(* Properties of the provider routes (checked under Spec) *)

StatusQueries == CallsOf({"checkProviderInstallation"})

\* The installation check made at the start of the request reported
\* installed = true.
InstalledAtStart ==
    /\ op = "install"
    /\ Len(StatusQueries) >= 1
    /\ StatusQueries[1].status.installed

\* C1 as stated: when the installation check at the start of an install
\* request reports installed = true, the request answers success with
\* alreadyInstalled = true and has made no package-manager call at all.
C1_NoCliCallWhenInstalled ==
    InstalledAtStart =>
        /\ pc = "done"
        /\ resp.status = 200 /\ resp.success /\ resp.alreadyInstalled
        /\ CallsOf(HelmCalls) = <<>>

\* C1 amended: when the installation check at the start of an install request
\* reports installed = true, the request answers success with
\* alreadyInstalled = true and has made no provisioning call (no repo add, no
\* repo update, no chart install); its only package-manager call is the
\* availability probe made before the installation check.
C1_NoProvisioningWhenInstalled ==
    InstalledAtStart =>
        /\ pc = "done"
        /\ resp.status = 200 /\ resp.success /\ resp.alreadyInstalled
        /\ ~resp.hasResults
        /\ CallsOf(ProvisioningCalls) = <<>>
        /\ Len(log) = 2
        /\ log[1] = Event("checkHelmAvailable", 0, TRUE, NoStatus)
        /\ log[2].call = "checkProviderInstallation"

C1_Witness ==
    /\ InstalledAtStart
    /\ pc = "done"
    /\ resp.alreadyInstalled

\* Some step of the install run failed.
InstallStepFailed ==
    /\ op = "install"
    /\ \E k \in 1..Len(results) : ~results[k].success

\* C2: when an install run fails at some step, the failure is returned as
\* data: the response carries the results collected so far, which are the
\* successful steps followed by the failing step as last entry, and an
\* overall result of failure.
C2_FailureReturnedAsData ==
    (pc = "done" /\ InstallStepFailed) =>
        /\ resp.hasResults
        /\ resp.results = results
        /\ ~resp.success
        /\ \A k \in 1..Len(resp.results) :
              resp.results[k].success <=> (k < Len(resp.results))

\* C3: uninstall issues one chart uninstall per declared chart, in the
\* reverse of the declared order, whatever the outcome of the previous
\* ones, and returns one outcome per chart in that same order.
C3_UninstallReverseOrder ==
    op = "uninstall" =>
        LET calls == CallsOf({"uninstall"}) IN
        /\ Len(calls) <= Len(charts)
        /\ \A k \in 1..Len(calls) : calls[k].n = charts[Len(charts) + 1 - k]
        /\ Len(results) = Len(calls)
        /\ \A k \in 1..Len(calls) :
              results[k] = StepResult("uninstall", calls[k].n, calls[k].ok)
        /\ (pc \in {"verify", "done"} /\ resp.status \notin {400, 404}) =>
              Len(calls) = Len(charts)
        /\ (pc = "done" /\ resp.status = 200) =>
              /\ resp.hasResults
              /\ resp.results = results

C3_Witness ==
    /\ op = "uninstall" /\ pc = "done" /\ resp.status = 200
    /\ Len(charts) = 3
    /\ resp.results = <<StepResult("uninstall", 3, FALSE),
                        StepResult("uninstall", 2, TRUE),
                        StepResult("uninstall", 1, FALSE)>>

\* The availability probe of this request reported the CLI unavailable.
CliUnavailable ==
    \E k \in 1..Len(log) : log[k].call = "checkHelmAvailable" /\ ~log[k].ok

\* C4: when the package-manager CLI is reported unavailable, install,
\* upgrade and uninstall fail at once with an error and attempt no step.
C4_CliUnavailableIsFatal ==
    (op \in {"install", "upgrade", "uninstall"} /\ CliUnavailable) =>
        /\ pc = "done"
        /\ resp.status = 400
        /\ ~resp.success
        /\ CallsOf(ProvisioningCalls) = <<>>
        /\ log = <<Event("checkHelmAvailable", 0, FALSE, NoStatus)>>

C4_Witness ==
    /\ op = "upgrade"
    /\ CliUnavailable
    /\ pc = "done"
    /\ Len(repos) > 0

ChartCalls == CallsOf({"install", "upgrade"})

\* The run is over and every provisioning step it had to make was made and
\* succeeded.
AllStepsSucceeded ==
    /\ op \in {"install", "upgrade"}
    /\ pc = "done"
    /\ Len(ChartCalls) = Len(charts)
    /\ \A k \in 1..Len(log) : log[k].call \in ProvisioningCalls => log[k].ok

\* C5: in an install or upgrade run whose provisioning steps all succeed,
\* the installation status is queried after the last chart operation, and
\* the installationStatus of the response is the answer to that query.
C5_StatusRequeriedAfterProvisioning ==
    AllStepsSucceeded =>
        /\ resp.status = 200
        /\ resp.hasStatus
        /\ log[Len(log)].call = "checkProviderInstallation"
        /\ log[Len(log) - 1].call \in {"install", "upgrade"}
        /\ log[Len(log) - 1].n = charts[Len(charts)]
        /\ resp.installationStatus = log[Len(log)].status

C5_Witness ==
    /\ AllStepsSucceeded
    /\ op = "install"
    /\ ~currentStatus.installed
    /\ resp.installationStatus.installed

\* C6: the success flag of an install, upgrade or uninstall response is true
\* only if every entry of the returned results succeeded.
C6_SuccessIsAndOfSteps ==
    (op \in {"install", "upgrade", "uninstall"} /\ pc = "done"
        /\ resp.hasResults) =>
        (resp.success <=>
            \A k \in 1..Len(resp.results) : resp.results[k].success)

\* C9: for a provider id that is not registered, install, upgrade,
\* uninstall, status and commands answer not-found and call neither the
\* package manager (not even the availability probe) nor the cluster.
C9_UnknownProviderNoEffect ==
    ~HasProvider(id) =>
        /\ log = <<>>
        /\ results = <<>>
        /\ pc \in {"start", "done"}
        /\ pc = "done" => resp.status = 404

C9_Witness ==
    /\ ~HasProvider(id)
    /\ op = "status"
    /\ pc = "done"
    /\ resp.status = 404

----------------------------------------------------------------------------
(* Properties of POST /deployments (checked under SpecDeploy) *)

ConfigValid == KaitoValidateConfig(name, namespace, restValid).valid

\* C7: for a request whose config passed validation the deployment is
\* created exactly once, whether the fit check fits, does not fit, or the
\* capacity query fails; a capacity failure never reaches the caller, and
\* the response carries warnings only when the fit check ran and reported
\* that the deployment does not fit.
C7_FitCheckNeverBlocks ==
    (op = "deploy" /\ ConfigValid) =>
        /\ created <= 1
        /\ pc = "done" =>
              /\ created = 1
              /\ Len(CallsOf({"createDeployment"})) = 1
              /\ resp.status \in {201, 500}
              /\ resp.status = 500 =>
                    log[Len(log)] = Event("createDeployment", 0, FALSE, NoStatus)
              /\ resp.hasWarnings =>
                    /\ fit = "doesNotFit"
                    /\ resp.warnings # <<>>

C7_Witness ==
    /\ op = "deploy" /\ ConfigValid
    /\ pc = "done"
    /\ fit = "capacityFailed"
    /\ created = 1
    /\ resp.status = 201

\* C8: a request that validateConfig reports invalid is rejected with the
\* validation messages; neither the capacity query nor the deployment
\* creation is made.
C8_ValidationIsTheGate ==
    (op = "deploy" /\ ~ConfigValid) =>
        /\ log = <<>>
        /\ created = 0
        /\ pc \in {"start", "done"}
        /\ pc = "done" =>
              /\ resp.status = 400
              /\ resp.errors # <<>>
              /\ resp.errors =
                    KaitoValidateConfig(name, namespace, restValid).errors

C8_Witness ==
    /\ op = "deploy" /\ ~ConfigValid
    /\ pc = "done"
    /\ resp.status = 400
    /\ resp.errors = <<"name", "namespace">>

\* C10: every request that reaches deployment creation has a name and a
\* namespace that satisfy the Kubernetes naming schemas.
C10_CreatedNamesAreValid ==
    (op = "deploy" /\ created >= 1) =>
        /\ ResourceNameSchemaOk(name)
        /\ NamespaceSchemaOk(namespace)

----------------------------------------------------------------------------
(* Library functions applied to one argument.                              *)
(*                                                                         *)
(* The cost engine, the GPU-fit validator and the manifest generator are   *)
(* synchronous functions.  Their specifications draw the argument in the   *)
(* initial state and have one action per function, which records the       *)
(* function applied (fn) and the value it returned (ret).  No request is   *)
(* in flight in these specifications.                                      *)

requestVars == <<op, id, repos, charts, pc, i, log, results, helmSuccess,
                 currentStatus, resp, name, namespace, restValid, fit,
                 gpuWarnings, created>>

NoRequest ==
    /\ op = "none"
    /\ id = "none"
    /\ repos = <<>>
    /\ charts = <<>>
    /\ pc = "done"
    /\ i = 1
    /\ log = <<>>
    /\ results = <<>>
    /\ helmSuccess = FALSE
    /\ currentStatus = NoStatus
    /\ resp = NoResp
    /\ name = <<>>
    /\ namespace = <<>>
    /\ restValid = FALSE
    /\ fit = "none"
    /\ gpuWarnings = <<>>
    /\ created = 0

\* An optional value: <<>> is `undefined`, <<v>> is the value v.
None == <<>>
Some(v) == <<v>>
IsSome(o) == o # <<>>

\* o ?? d
OrElse(o, d) == IF IsSome(o) THEN o[1] ELSE d

\* o ?? p   where p is itself optional
OrElseOpt(o, p) == IF IsSome(o) THEN o ELSE p

Optional(S) == {None} \cup {Some(v) : v \in S}

----------------------------------------------------------------------------
(* Cost engine (services/costEstimation.ts, routes/costs.ts) *)

MaxReplicas == 2

CloudProviders == {"aws", "azure", "gcp", "on-prem", "none"}

GpuTypes == {"nvidia-a100-40gb", "nvidia-a100-80gb", "nvidia-h100",
             "nvidia-h200", "nvidia-l40s", "nvidia-l4", "nvidia-t4",
             "nvidia-v100", "nvidia-a10g", "unknown"}

\* USD per GPU-hour, in cents.
PricedRow(a40, a80, h100, h200, l40s, l4, t4, v100, a10g, unknown) ==
    [g \in GpuTypes |->
        CASE g = "nvidia-a100-40gb" -> a40
          [] g = "nvidia-a100-80gb" -> a80
          [] g = "nvidia-h100" -> h100
          [] g = "nvidia-h200" -> h200
          [] g = "nvidia-l40s" -> l40s
          [] g = "nvidia-l4" -> l4
          [] g = "nvidia-t4" -> t4
          [] g = "nvidia-v100" -> v100
          [] g = "nvidia-a10g" -> a10g
          [] g = "unknown" -> unknown]

GPU_PRICING ==
    [p \in CloudProviders |->
        CASE p = "aws" ->
                PricedRow(340, 410, 510, 650, 180, 80, 53, 126, 121, 250)
          [] p = "azure" ->
                PricedRow(340, 367, 500, 620, 170, 75, 52, 122, 110, 240)
          [] p = "gcp" ->
                PricedRow(317, 367, 507, 630, 165, 70, 35, 110, 100, 230)
          [] p = "on-prem" -> PricedRow(0, 0, 0, 0, 0, 0, 0, 0, 0, 0)
          [] p = "none" -> PricedRow(0, 0, 0, 0, 0, 0, 0, 0, 0, 0)]

\* gpuType is z.string(): the route accepts a string the table has no row
\* entry for.
InputGpuTypes == {"nvidia-a100-80gb", "nvidia-t4", "unknown", "nvidia-b200"}

\* customHourlyRate is z.number().min(0), in cents.
CustomRates == {0, 150}

\* Replica counts are z.number().int().min(1).
ReplicaCounts == 1..MaxReplicas

\* GPUs per replica: z.number().int().min(1); a single GPU or a 4-GPU node.
GpuCounts == {1, 4}

CostEstimateInputs ==
    [mode : {"aggregated", "disaggregated"},
     replicas : ReplicaCounts,
     gpusPerReplica : GpuCounts,
     prefillReplicas : Optional(ReplicaCounts),
     decodeReplicas : Optional(ReplicaCounts),
     prefillGpus : Optional(GpuCounts),
     decodeGpus : Optional(GpuCounts),
     cloudProvider : Optional(CloudProviders),
     gpuType : Optional(InputGpuTypes),
     customHourlyRate : Optional(CustomRates)]

\* body.settings, when present and valid.
CostSettingsValues ==
    {[cloudProvider |-> Some("aws"), gpuType |-> Some("nvidia-t4"),
      customHourlyRate |-> None],
     [cloudProvider |-> Some("on-prem"), gpuType |-> Some("unknown"),
      customHourlyRate |-> Some(200)],
     [cloudProvider |-> Some("none"), gpuType |-> Some("unknown"),
      customHourlyRate |-> None]}

NoSettings ==
    [cloudProvider |-> None, gpuType |-> None, customHourlyRate |-> None]

\* costSettings?.field : an absent settings object reads as all-undefined.
SettingsOf(o) == OrElse(o, NoSettings)

\* The disaggregated branch with the replica default taken from
\* input.replicas.
DisaggregatedDefaultsFromReplicas(input) ==
    LET prefillInstances == OrElse(input.prefillReplicas, input.replicas)
        decodeInstances == OrElse(input.decodeReplicas, input.replicas)
        prefillGpusPerInstance ==
            OrElse(input.prefillGpus, input.gpusPerReplica)
        decodeGpusPerInstance ==
            OrElse(input.decodeGpus, input.gpusPerReplica)
    IN  [workerInstances |-> None,
         gpusPerWorker |-> None,
         prefillInstances |-> Some(prefillInstances),
         prefillGpusPerInstance |-> Some(prefillGpusPerInstance),
         decodeInstances |-> Some(decodeInstances),
         decodeGpusPerInstance |-> Some(decodeGpusPerInstance),
         totalGpus |-> (prefillInstances * prefillGpusPerInstance)
                       + (decodeInstances * decodeGpusPerInstance),
         totalInstances |-> prefillInstances + decodeInstances]

Disaggregated(input) ==
    LET prefillInstances == OrElse(input.prefillReplicas, 1)
        decodeInstances == OrElse(input.decodeReplicas, 1)
        prefillGpusPerInstance ==
            OrElse(input.prefillGpus, input.gpusPerReplica)
        decodeGpusPerInstance ==
            OrElse(input.decodeGpus, input.gpusPerReplica)
    IN  [workerInstances |-> None,
         gpusPerWorker |-> None,
         prefillInstances |-> Some(prefillInstances),
         prefillGpusPerInstance |-> Some(prefillGpusPerInstance),
         decodeInstances |-> Some(decodeInstances),
         decodeGpusPerInstance |-> Some(decodeGpusPerInstance),
         totalGpus |-> (prefillInstances * prefillGpusPerInstance)
                       + (decodeInstances * decodeGpusPerInstance),
         totalInstances |-> prefillInstances + decodeInstances]

\* The aggregated branch counting a prefill/decode pair when one is given.
AggregatedCountingPairs(input) ==
    LET workerInstances ==
            IF IsSome(input.prefillReplicas)
               THEN input.prefillReplicas[1] + OrElse(input.decodeReplicas, 1)
               ELSE input.replicas
        gpusPerWorker == input.gpusPerReplica
    IN  [workerInstances |-> Some(workerInstances),
         gpusPerWorker |-> Some(gpusPerWorker),
         prefillInstances |-> None,
         prefillGpusPerInstance |-> None,
         decodeInstances |-> None,
         decodeGpusPerInstance |-> None,
         totalGpus |-> workerInstances * gpusPerWorker,
         totalInstances |-> workerInstances]

Aggregated(input) ==
    LET workerInstances == input.replicas
        gpusPerWorker == input.gpusPerReplica
    IN  [workerInstances |-> Some(workerInstances),
         gpusPerWorker |-> Some(gpusPerWorker),
         prefillInstances |-> None,
         prefillGpusPerInstance |-> None,
         decodeInstances |-> None,
         decodeGpusPerInstance |-> None,
         totalGpus |-> workerInstances * gpusPerWorker,
         totalInstances |-> workerInstances]

calculateResourceBreakdown(input) ==
    IF input.mode = "disaggregated"
       THEN Disaggregated(input)
       ELSE Aggregated(input)

\* providerPricing[key]: undefined when the row has no such key.
TableEntry(cloudProvider, key) ==
    IF key \in DOMAIN GPU_PRICING[cloudProvider]
       THEN Some(GPU_PRICING[cloudProvider][key])
       ELSE None

\* getHourlyRate(cloudProvider, gpuType, customHourlyRate)
getHourlyRate(cloudProvider, gpuType, customHourlyRate) ==
    IF cloudProvider = Some("on-prem") /\ IsSome(customHourlyRate)
       THEN customHourlyRate
    ELSE IF ~IsSome(cloudProvider) \/ cloudProvider = Some("none")
       THEN None
    ELSE IF cloudProvider[1] \notin DOMAIN GPU_PRICING
       THEN None
    ELSE LET rate == TableEntry(cloudProvider[1], OrElse(gpuType, "unknown"))
         IN  \* `undefined > 0` is false
             IF IsSome(rate) /\ rate[1] > 0 THEN rate ELSE None

\* Exact quotient n / d (d > 0) as a fraction in lowest terms.
Abs(n) == IF n < 0 THEN 0 - n ELSE n

RECURSIVE Gcd(_, _)
Gcd(a, b) == IF b = 0 THEN a ELSE Gcd(b, a % b)

Quotient(n, d) ==
    LET g == Gcd(Abs(n), d)
    IN  [num |-> n \div g, den |-> d \div g]

Whole(n) == [num |-> n, den |-> 1]

\* Baseline taken as the whole aggregated deployment.
BaselineGpusAllReplicas(input) == input.replicas * input.gpusPerReplica

\* "Calculate baseline (1 replica, same GPUs per worker)"
BaselineGpus(input) == input.gpusPerReplica

\* Rates with a 30-day month.
RatesThirtyDayMonth(totalGpus, perGpuHourlyRate) ==
    LET hourlyRate == totalGpus * perGpuHourlyRate
        dailyRate == hourlyRate * 24
    IN  [hourlyRate |-> Some(hourlyRate),
         dailyRate |-> Some(dailyRate),
         monthlyRate |-> Some(dailyRate * 30)]

Rates(totalGpus, perGpuHourlyRate) ==
    LET hourlyRate == totalGpus * perGpuHourlyRate
        dailyRate == hourlyRate * 24
    IN  [hourlyRate |-> Some(hourlyRate),
         dailyRate |-> Some(dailyRate),
         monthlyRate |-> Some(hourlyRate * 730)]

NoRates == [hourlyRate |-> None, dailyRate |-> None, monthlyRate |-> None]

\* The per-GPU rate of an estimate: the provider, GPU type and custom rate
\* come from the input, then from the settings, then from the defaults.
PerGpuHourlyRate(input, costSettings) ==
    LET settings == SettingsOf(costSettings)
        cloudProvider ==
            OrElse(OrElseOpt(input.cloudProvider, settings.cloudProvider),
                   "none")
        gpuType ==
            OrElse(OrElseOpt(input.gpuType, settings.gpuType), "unknown")
        customHourlyRate ==
            OrElseOpt(input.customHourlyRate, settings.customHourlyRate)
    IN  [cloudProvider |-> cloudProvider,
         gpuType |-> gpuType,
         rate |-> getHourlyRate(Some(cloudProvider), Some(gpuType),
                                customHourlyRate)]

calculateCostEstimate(input, costSettings) ==
    LET resources == calculateResourceBreakdown(input)
        pricing == PerGpuHourlyRate(input, costSettings)
        baselineGpus == BaselineGpus(input)
        additionalGpus == resources.totalGpus - baselineGpus
        percentageIncrease ==
            IF baselineGpus > 0
               THEN Quotient((resources.totalGpus - baselineGpus) * 100,
                             baselineGpus)
               ELSE Whole(0)
        gpuMultiplier ==
            IF baselineGpus > 0
               THEN Quotient(resources.totalGpus, baselineGpus)
               ELSE Whole(1)
        perGpuHourlyRate == pricing.rate
        hasActualCosts == IsSome(perGpuHourlyRate) /\ perGpuHourlyRate[1] > 0
        rates == IF hasActualCosts
                    THEN Rates(resources.totalGpus, perGpuHourlyRate[1])
                    ELSE NoRates
    IN  [resources |-> resources,
         hasActualCosts |-> hasActualCosts,
         hourlyRate |-> rates.hourlyRate,
         dailyRate |-> rates.dailyRate,
         monthlyRate |-> rates.monthlyRate,
         gpuType |-> IF hasActualCosts THEN Some(pricing.gpuType) ELSE None,
         cloudProvider |->
            IF hasActualCosts THEN Some(pricing.cloudProvider) ELSE None,
         gpuMultiplier |-> gpuMultiplier,
         baselineGpus |-> baselineGpus,
         additionalGpus |-> additionalGpus,
         percentageIncrease |-> percentageIncrease]

\* The frontend's calculateLocalCostEstimate (hooks/useCosts.ts).  The
\* fields it leaves out of the object it returns are undefined, as are the
\* ones the backend sets to undefined.
LocalEstimate(resources, totalGpus, gpusPerReplica) ==
    [resources |-> resources,
     hasActualCosts |-> FALSE,
     hourlyRate |-> None,
     dailyRate |-> None,
     monthlyRate |-> None,
     gpuType |-> None,
     cloudProvider |-> None,
     gpuMultiplier |-> Quotient(totalGpus, gpusPerReplica),
     baselineGpus |-> gpusPerReplica,
     additionalGpus |-> totalGpus - gpusPerReplica,
     percentageIncrease |->
        Quotient((totalGpus - gpusPerReplica) * 100, gpusPerReplica)]

\* The disaggregated branch with the replica defaults taken from `replicas`.
LocalDisaggregatedDefaultsFromReplicas(replicas, gpusPerReplica, prefillReplicas, decodeReplicas, prefillGpus, decodeGpus) ==
    LET pReplicas == OrElse(prefillReplicas, replicas)
        dReplicas == OrElse(decodeReplicas, replicas)
        pGpus == OrElse(prefillGpus, gpusPerReplica)
        dGpus == OrElse(decodeGpus, gpusPerReplica)
        totalGpus == (pReplicas * pGpus) + (dReplicas * dGpus)
        totalInstances == pReplicas + dReplicas
    IN  LocalEstimate([workerInstances |-> None,
                       gpusPerWorker |-> None,
                       prefillInstances |-> Some(pReplicas),
                       prefillGpusPerInstance |-> Some(pGpus),
                       decodeInstances |-> Some(dReplicas),
                       decodeGpusPerInstance |-> Some(dGpus),
                       totalGpus |-> totalGpus,
                       totalInstances |-> totalInstances],
                      totalGpus, gpusPerReplica)

LocalDisaggregated(replicas, gpusPerReplica, prefillReplicas, decodeReplicas, prefillGpus, decodeGpus) ==
    LET pReplicas == OrElse(prefillReplicas, 1)
        dReplicas == OrElse(decodeReplicas, 1)
        pGpus == OrElse(prefillGpus, gpusPerReplica)
        dGpus == OrElse(decodeGpus, gpusPerReplica)
        totalGpus == (pReplicas * pGpus) + (dReplicas * dGpus)
        totalInstances == pReplicas + dReplicas
    IN  LocalEstimate([workerInstances |-> None,
                       gpusPerWorker |-> None,
                       prefillInstances |-> Some(pReplicas),
                       prefillGpusPerInstance |-> Some(pGpus),
                       decodeInstances |-> Some(dReplicas),
                       decodeGpusPerInstance |-> Some(dGpus),
                       totalGpus |-> totalGpus,
                       totalInstances |-> totalInstances],
                      totalGpus, gpusPerReplica)

LocalAggregated(replicas, gpusPerReplica) ==
    LET totalGpus == replicas * gpusPerReplica
        totalInstances == replicas
    IN  LocalEstimate([workerInstances |-> Some(replicas),
                       gpusPerWorker |-> Some(gpusPerReplica),
                       prefillInstances |-> None,
                       prefillGpusPerInstance |-> None,
                       decodeInstances |-> None,
                       decodeGpusPerInstance |-> None,
                       totalGpus |-> totalGpus,
                       totalInstances |-> totalInstances],
                      totalGpus, gpusPerReplica)

calculateLocalCostEstimate(mode, replicas, gpusPerReplica, prefillReplicas, decodeReplicas, prefillGpus, decodeGpus) ==
    IF mode = "disaggregated"
       THEN LocalDisaggregated(replicas, gpusPerReplica, prefillReplicas,
                               decodeReplicas, prefillGpus, decodeGpus)
       ELSE LocalAggregated(replicas, gpusPerReplica)

\* calculateResourceBreakdown applied to the parsed body.
ResourceBreakdownCall ==
    /\ fn = "none"
    /\ fn' = "calculateResourceBreakdown"
    /\ ret' = calculateResourceBreakdown(arg.input)
    /\ UNCHANGED <<arg, requestVars, auxVars>>

\* getHourlyRate applied to the pricing fields of the parsed body.
HourlyRateCall ==
    /\ fn = "none"
    /\ fn' = "getHourlyRate"
    /\ ret' = getHourlyRate(arg.input.cloudProvider, arg.input.gpuType,
                            arg.input.customHourlyRate)
    /\ UNCHANGED <<arg, requestVars, auxVars>>

\* POST /costs/estimate with a body that passes costEstimateInputSchema.
CostEstimateCall ==
    /\ fn = "none"
    /\ fn' = "calculateCostEstimate"
    /\ ret' = calculateCostEstimate(arg.input, arg.settings)
    /\ UNCHANGED <<arg, requestVars, auxVars>>

\* The form's local estimate for the same topology.
LocalCostEstimateCall ==
    /\ fn = "none"
    /\ fn' = "calculateLocalCostEstimate"
    /\ ret' = calculateLocalCostEstimate(
                  arg.input.mode, arg.input.replicas, arg.input.gpusPerReplica,
                  arg.input.prefillReplicas, arg.input.decodeReplicas,
                  arg.input.prefillGpus, arg.input.decodeGpus)
    /\ UNCHANGED <<arg, requestVars, auxVars>>

InitCost ==
    /\ NoRequest
    /\ NoAux
    /\ fn = "none"
    /\ arg \in [input : CostEstimateInputs,
                settings : Optional(CostSettingsValues)]
    /\ ret = <<>>

NextCost ==
    \/ ResourceBreakdownCall
    \/ HourlyRateCall
    \/ CostEstimateCall
    \/ LocalCostEstimateCall

SpecCost == InitCost /\ [][NextCost]_vars

----------------------------------------------------------------------------
(* The fit validator applied to one topology and one capacity snapshot *)

FitInputs ==
    [topology : Topologies, capacity : Capacities,
     modelMinGpus : 1..MaxGpus]

ValidateGpuFitCall ==
    /\ fn = "none"
    /\ fn' = "validateGpuFit"
    /\ ret' = ValidateGpuFit(arg.topology, arg.capacity, arg.modelMinGpus)
    /\ UNCHANGED <<arg, requestVars, auxVars>>

InitFit ==
    /\ NoRequest
    /\ NoAux
    /\ fn = "none"
    /\ arg \in FitInputs
    /\ ret = <<>>

NextFit == ValidateGpuFitCall

SpecFit == InitFit /\ [][NextFit]_vars

----------------------------------------------------------------------------
(* Dynamo manifest generator and structural validator (providers/dynamo) *)

MaxEngineArgs == 2

Engines == {"vllm", "sglang", "trtllm"}

WorkerKeys == {"VllmWorker", "SglangWorker", "TrtllmWorker"}

\* A value of the engineArgs map: whether `typeof value` is 'boolean', and
\* the text `${value}` produces.
EngineArgValues ==
    {[isBoolean |-> TRUE, text |-> "true"],
     [isBoolean |-> TRUE, text |-> "false"],
     [isBoolean |-> FALSE, text |-> "0.9"]}

EngineArgKeys == {"seed", "enable-chunked-prefill", "gpu-memory-utilization"}

\* Object.entries(config.engineArgs): distinct keys, in map order.
EngineArgEntries ==
    UNION {{e \in [1..n -> [key : EngineArgKeys, value : EngineArgValues]] :
                \A j, k \in 1..n : j # k => e[j].key # e[k].key} :
           n \in 0..MaxEngineArgs}

DeploymentConfigs ==
    [name : {"", "demo"},
     namespace : {"", "kubefoundry-system"},
     modelId : {"Qwen/Qwen3-0.6B"},
     engine : Engines,
     routerMode : {"none", "kv"},
     replicas : {1},
     hfTokenSecret : {"", "hf-token-secret"},
     servedModelName : Optional({"qwen"}),
     contextLength : Optional({4096}),
     enforceEager : BOOLEAN,
     enablePrefixCaching : BOOLEAN,
     trustRemoteCode : BOOLEAN,
     resources : Optional({[gpu |-> 1, memory |-> None]}),
     engineArgs : EngineArgEntries]

\* A command line is a sequence of words; a word is a sequence of the text
\* pieces a template literal puts together.
Word(t) == <<t>>
Flag(key) == <<"--", key>>

generateFrontendSpec(config) ==
    [componentType |-> "frontend",
     dynamoNamespace |-> config.name,
     replicas |-> 1,
     routerMode |-> IF config.routerMode # "none"
                       THEN Some(config.routerMode) ELSE None,
     envFromSecret |-> IF config.hfTokenSecret # ""
                          THEN Some(config.hfTokenSecret) ELSE None]

\* The options with --max-model-len pushed first.
OptionArgsContextLengthFirst(config) ==
    (IF IsSome(config.contextLength) /\ config.contextLength[1] # 0
        THEN <<Flag("max-model-len"), Word(ToString(config.contextLength[1]))>>
        ELSE <<>>)
    \o (IF IsSome(config.servedModelName) /\ config.servedModelName[1] # ""
        THEN <<Flag("served-model-name"), Word(config.servedModelName[1])>>
        ELSE <<>>)
    \o (IF config.enforceEager THEN <<Flag("enforce-eager")>> ELSE <<>>)
    \o (IF config.enablePrefixCaching
        THEN <<Flag("enable-prefix-caching")>> ELSE <<>>)
    \o (IF config.trustRemoteCode THEN <<Flag("trust-remote-code")>> ELSE <<>>)

\* The optional arguments, each pushed when its option is truthy.
OptionArgs(config) ==
    (IF IsSome(config.servedModelName) /\ config.servedModelName[1] # ""
        THEN <<Flag("served-model-name"), Word(config.servedModelName[1])>>
        ELSE <<>>)
    \o (IF config.enforceEager THEN <<Flag("enforce-eager")>> ELSE <<>>)
    \o (IF config.enablePrefixCaching
        THEN <<Flag("enable-prefix-caching")>> ELSE <<>>)
    \o (IF config.trustRemoteCode THEN <<Flag("trust-remote-code")>> ELSE <<>>)
    \o (IF IsSome(config.contextLength) /\ config.contextLength[1] # 0
        THEN <<Flag("max-model-len"), Word(ToString(config.contextLength[1]))>>
        ELSE <<>>)

\* One entry of engineArgs: `--key` for boolean true, nothing for boolean
\* false, `--key value` for a value that is not a boolean.
EngineArg(entry) ==
    IF entry.value.isBoolean /\ entry.value.text = "true"
       THEN <<Flag(entry.key)>>
    ELSE IF ~entry.value.isBoolean
       THEN <<Flag(entry.key), Word(entry.value.text)>>
    ELSE <<>>

RECURSIVE EngineArgs(_)
EngineArgs(entries) ==
    IF entries = <<>> THEN <<>>
    ELSE EngineArg(Head(entries)) \o EngineArgs(Tail(entries))

\* args.join(' ')
WorkerArgs(config) ==
    <<Word("python3"), Word("-m"), <<"dynamo.", config.engine>>,
      Flag("model"), Word(config.modelId)>>
    \o OptionArgs(config)
    \o EngineArgs(config.engineArgs)

\* The switch with every engine on its default case.
WorkerKeyDefault(engine) == "VllmWorker"

WorkerKey(engine) ==
    CASE engine = "vllm" -> "VllmWorker"
      [] engine = "sglang" -> "SglangWorker"
      [] engine = "trtllm" -> "TrtllmWorker"
      [] OTHER -> "VllmWorker"

generateWorkerSpec(config) ==
    LET gpuAndMemory ==
            [gpu |-> ToString(config.resources[1].gpu),
             memory |-> config.resources[1].memory]
        baseSpec ==
            [componentType |-> "worker",
             dynamoNamespace |-> config.name,
             replicas |-> config.replicas,
             envFromSecret |-> IF config.hfTokenSecret # ""
                                  THEN Some(config.hfTokenSecret) ELSE None,
             resources |-> IF IsSome(config.resources)
                              THEN Some([limits |-> gpuAndMemory,
                                         requests |-> gpuAndMemory])
                              ELSE None,
             extraPodSpec |->
                [mainContainer |->
                    [workingDir |-> <<"/workspace/examples/backends/",
                                      config.engine>>,
                     command |-> <<"/bin/sh", "-c">>,
                     args |-> WorkerArgs(config)]]]
    IN  [k \in {WorkerKey(config.engine)} |-> baseSpec]

generateDynamoManifest(config) ==
    LET workerSpec == generateWorkerSpec(config)
        frontendSpec == generateFrontendSpec(config)
        services ==
            [k \in {"Frontend"} \cup DOMAIN workerSpec |->
                IF k \in DOMAIN workerSpec THEN workerSpec[k]
                                           ELSE frontendSpec]
    IN  [apiVersion |-> "nvidia.com/v1alpha1",
         kind |-> "DynamoGraphDeployment",
         metadata |-> Some([name |-> config.name,
                            namespace |-> config.namespace,
                            labels |-> [name |-> "kubefoundry",
                                        instance |-> config.name,
                                        managedBy |-> "kubefoundry",
                                        provider |-> "dynamo"]]),
         spec |-> Some([backendFramework |-> config.engine,
                        services |-> Some(services)])]

\* Candidate manifests handed to the validator: "" is a missing string,
\* None a missing object.
ServiceKeys == {"Frontend", "Planner"} \cup WorkerKeys

ServiceMaps ==
    {[k \in ks |-> [componentType |-> "any"]] : ks \in SUBSET ServiceKeys}

CandidateManifests ==
    [apiVersion : {"nvidia.com/v1alpha1", "wrong/v1", ""},
     kind : {"DynamoGraphDeployment", "Deployment", ""},
     metadata : Optional([name : {"", "demo"},
                          namespace : {"", "kubefoundry-system"}]),
     spec : Optional([backendFramework : {"vllm"},
                      services : Optional(ServiceMaps)])]

ApiVersionError == "Invalid or missing apiVersion"
KindError == "Invalid or missing kind"
NameError == "Missing metadata.name"
NamespaceError == "Missing metadata.namespace"
SpecError == "Missing spec"
ServicesError == "Missing spec.services"
FrontendError == "Missing Frontend in spec.services"
WorkerError ==
    "Missing worker spec (VllmWorker, SglangWorker, or TrtllmWorker) in spec.services"

When(violated, message) == IF violated THEN <<message>> ELSE <<>>

\* The validator returning at the first violated rule.
validateManifestFailFast(manifest) ==
    LET services == IF IsSome(manifest.spec)
                       THEN manifest.spec[1].services ELSE None
        all ==
            When(manifest.apiVersion # "nvidia.com/v1alpha1", ApiVersionError)
            \o When(manifest.kind # "DynamoGraphDeployment", KindError)
            \o When(~IsSome(manifest.metadata)
                       \/ manifest.metadata[1].name = "", NameError)
            \o When(~IsSome(manifest.metadata)
                       \/ manifest.metadata[1].namespace = "", NamespaceError)
            \o When(~IsSome(manifest.spec), SpecError)
            \o (IF ~IsSome(services)
                   THEN <<ServicesError>>
                   ELSE When("Frontend" \notin DOMAIN services[1],
                             FrontendError)
                        \o When(WorkerKeys \cap DOMAIN services[1] = {},
                                WorkerError))
        errors == IF all = <<>> THEN <<>> ELSE <<Head(all)>>
    IN  [valid |-> (Len(errors) = 0), errors |-> errors]

validateManifest(manifest) ==
    LET services == IF IsSome(manifest.spec)
                       THEN manifest.spec[1].services ELSE None
        errors ==
            When(manifest.apiVersion = ""
                    \/ manifest.apiVersion # "nvidia.com/v1alpha1",
                 ApiVersionError)
            \o When(manifest.kind = ""
                       \/ manifest.kind # "DynamoGraphDeployment", KindError)
            \o When(~IsSome(manifest.metadata)
                       \/ manifest.metadata[1].name = "", NameError)
            \o When(~IsSome(manifest.metadata)
                       \/ manifest.metadata[1].namespace = "", NamespaceError)
            \o When(~IsSome(manifest.spec), SpecError)
            \o (IF ~IsSome(services)
                   THEN <<ServicesError>>
                   ELSE When("Frontend" \notin DOMAIN services[1],
                             FrontendError)
                        \o When(WorkerKeys \cap DOMAIN services[1] = {},
                                WorkerError))
    IN  [valid |-> (Len(errors) = 0), errors |-> errors]

GenerateManifestCall ==
    /\ fn = "none"
    /\ arg.kind = "config"
    /\ fn' = "generateDynamoManifest"
    /\ ret' = generateDynamoManifest(arg.value)
    /\ UNCHANGED <<arg, requestVars, auxVars>>

ValidateManifestCall ==
    /\ fn = "none"
    /\ arg.kind = "manifest"
    /\ fn' = "validateManifest"
    /\ ret' = validateManifest(arg.value)
    /\ UNCHANGED <<arg, requestVars, auxVars>>

InitManifest ==
    /\ NoRequest
    /\ NoAux
    /\ fn = "none"
    /\ \/ arg \in [kind : {"config"}, value : DeploymentConfigs]
       \/ arg \in [kind : {"manifest"}, value : CandidateManifests]
    /\ ret = <<>>

NextManifest == GenerateManifestCall \/ ValidateManifestCall

SpecManifest == InitManifest /\ [][NextManifest]_vars

----------------------------------------------------------------------------
(* Properties of the cost engine (checked under SpecCost) *)

BreakdownOf(m) ==
    /\ fn = "calculateResourceBreakdown"
    /\ arg.input.mode = m

\* C11: for every aggregated input, calculateResourceBreakdown returns
\* totalGpus = replicas * gpusPerReplica, totalInstances = replicas,
\* workerInstances = replicas and gpusPerWorker = gpusPerReplica, whatever
\* prefill/decode fields the input carries.
C11_AggregatedBreakdown ==
    BreakdownOf("aggregated") =>
        /\ ret.totalGpus = arg.input.replicas * arg.input.gpusPerReplica
        /\ ret.totalInstances = arg.input.replicas
        /\ ret.workerInstances = Some(arg.input.replicas)
        /\ ret.gpusPerWorker = Some(arg.input.gpusPerReplica)

\* An aggregated input that also carries prefill/decode fields.
C11_Witness ==
    /\ BreakdownOf("aggregated")
    /\ arg.input.replicas = 1
    /\ arg.input.gpusPerReplica = 4
    /\ arg.input.prefillReplicas = Some(2)
    /\ arg.input.decodeGpus = Some(1)
    /\ ret.totalGpus = 4

\* C12: for every disaggregated input, totalGpus = prefillInstances *
\* prefillGpusPerInstance + decodeInstances * decodeGpusPerInstance and
\* totalInstances = prefillInstances + decodeInstances, where an omitted
\* replica count is 1 and an omitted GPU count is gpusPerReplica; changing
\* the input's replicas field does not change the result.
C12_DisaggregatedBreakdown ==
    BreakdownOf("disaggregated") =>
        LET in == arg.input
            pI == IF IsSome(in.prefillReplicas) THEN in.prefillReplicas[1]
                                                ELSE 1
            dI == IF IsSome(in.decodeReplicas) THEN in.decodeReplicas[1]
                                               ELSE 1
            pG == IF IsSome(in.prefillGpus) THEN in.prefillGpus[1]
                                            ELSE in.gpusPerReplica
            dG == IF IsSome(in.decodeGpus) THEN in.decodeGpus[1]
                                           ELSE in.gpusPerReplica
        IN  /\ ret.prefillInstances = Some(pI)
            /\ ret.decodeInstances = Some(dI)
            /\ ret.prefillGpusPerInstance = Some(pG)
            /\ ret.decodeGpusPerInstance = Some(dG)
            /\ ret.totalGpus = pI * pG + dI * dG
            /\ ret.totalInstances = pI + dI
            /\ \A r \in ReplicaCounts :
                  calculateResourceBreakdown([in EXCEPT !.replicas = r]) = ret

\* A disaggregated input that relies on both defaults while replicas is 2.
C12_Witness ==
    /\ BreakdownOf("disaggregated")
    /\ arg.input.replicas = 2
    /\ arg.input.gpusPerReplica = 4
    /\ arg.input.prefillReplicas = None
    /\ arg.input.prefillGpus = None
    /\ arg.input.decodeReplicas = Some(2)
    /\ arg.input.decodeGpus = Some(1)
    /\ ret.totalGpus = 6
    /\ ret.totalInstances = 3

EstimateMade == fn = "calculateCostEstimate"

\* C14: an estimate with hasActualCosts has hourlyRate = totalGpus * (per-GPU
\* hourly rate), dailyRate = hourlyRate * 24 and monthlyRate = hourlyRate *
\* 730; an estimate without it has all three rates undefined.
C14_RatesFromHourly ==
    EstimateMade =>
        LET rate == PerGpuHourlyRate(arg.input, arg.settings).rate
        IN  IF ret.hasActualCosts
               THEN /\ IsSome(rate)
                    /\ ret.hourlyRate = Some(ret.resources.totalGpus * rate[1])
                    /\ ret.dailyRate = Some(ret.hourlyRate[1] * 24)
                    /\ ret.monthlyRate = Some(ret.hourlyRate[1] * 730)
               ELSE /\ ret.hourlyRate = None
                    /\ ret.dailyRate = None
                    /\ ret.monthlyRate = None

\* Eight A100-80GB GPUs on AWS: 8 * $4.10 per hour.
C14_Witness ==
    /\ EstimateMade
    /\ arg.input.cloudProvider = Some("aws")
    /\ arg.input.gpuType = Some("nvidia-a100-80gb")
    /\ ret.resources.totalGpus = 8
    /\ ret.hasActualCosts
    /\ ret.hourlyRate = Some(3280)
    /\ ret.monthlyRate = Some(2394400)

\* No priced provider applies: the input says 'none', or the input says
\* nothing and the settings say 'none' or nothing.
NoPricedProvider ==
    \/ arg.input.cloudProvider = Some("none")
    \/ /\ arg.input.cloudProvider = None
       /\ \/ arg.settings = None
          \/ arg.settings[1].cloudProvider \in {None, Some("none")}

\* C15: when no priced provider applies, the estimate has hasActualCosts
\* false and hourlyRate undefined, while baselineGpus = gpusPerReplica,
\* gpuMultiplier = totalGpus / baselineGpus and percentageIncrease =
\* (totalGpus - baselineGpus) / baselineGpus * 100 are still computed.
C15_RelativeMetricsWithoutPricing ==
    (EstimateMade /\ NoPricedProvider) =>
        LET total == ret.resources.totalGpus
            base == arg.input.gpusPerReplica
        IN  /\ ~ret.hasActualCosts
            /\ ret.hourlyRate = None
            /\ ret.baselineGpus = base
            /\ ret.gpuMultiplier.den > 0
            /\ ret.gpuMultiplier.num * base = total * ret.gpuMultiplier.den
            /\ ret.percentageIncrease.den > 0
            /\ ret.percentageIncrease.num * base
                  = (total - base) * 100 * ret.percentageIncrease.den

\* Aggregated, 2 replicas of 4 GPUs, no provider anywhere: 8 GPUs, twice
\* the baseline.
C15_Witness ==
    /\ EstimateMade
    /\ arg.input.mode = "aggregated"
    /\ arg.input.replicas = 2
    /\ arg.input.gpusPerReplica = 4
    /\ arg.input.cloudProvider = None
    /\ arg.settings = None
    /\ ret.resources.totalGpus = 8
    /\ ret.gpuMultiplier = [num |-> 2, den |-> 1]
    /\ ret.percentageIncrease = [num |-> 100, den |-> 1]
    /\ ~ret.hasActualCosts

\* The rate the pricing lookup is stated to return.
StatedRate(cloudProvider, gpuType, customHourlyRate) ==
    IF cloudProvider = Some("on-prem") /\ IsSome(customHourlyRate)
       THEN customHourlyRate
    ELSE IF cloudProvider = None \/ cloudProvider = Some("none")
       THEN None
    ELSE LET row == GPU_PRICING[cloudProvider[1]]
             entry == IF IsSome(gpuType) /\ gpuType[1] \in DOMAIN row
                         THEN row[gpuType[1]]
                         ELSE row["unknown"]
         IN  IF entry = 0 THEN None ELSE Some(entry)

\* C16: the pricing lookup returns the custom rate for on-prem when one is
\* supplied, undefined for 'none' or no provider, and otherwise the table
\* rate of (provider, gpuType), with the provider's 'unknown' rate for a GPU
\* type that has no table entry of its own, and undefined for a zero entry.
C16_PricingLookup ==
    fn = "getHourlyRate" =>
        ret = StatedRate(arg.input.cloudProvider, arg.input.gpuType,
                         arg.input.customHourlyRate)

----------------------------------------------------------------------------
(* Properties of the fit validator (checked under SpecFit) *)

FitChecked == fn = "validateGpuFit"

OneGpuShort == arg.capacity.availableGpus = arg.topology.totalGpus - 1

\* C13 as stated: whenever availableGpus >= totalGpus and
\* maxContiguousAvailable >= maxGpusPerPod the validator answers fits with
\* no warnings, for every modelMinGpus; whenever availableGpus = totalGpus - 1
\* it answers not-fits with at least one warning.
C13_FitsWheneverTotalAvailable ==
    FitChecked =>
        /\ (/\ arg.capacity.availableGpus >= arg.topology.totalGpus
            /\ arg.capacity.maxContiguousAvailable
                  >= arg.topology.maxGpusPerPod)
              => (ret.fits /\ ret.warnings = <<>>)
        /\ OneGpuShort => (~ret.fits /\ ret.warnings # <<>>)

\* C13: whenever availableGpus >= totalGpus, availableGpus >= modelMinGpus
\* and maxContiguousAvailable >= maxGpusPerPod the validator answers fits
\* with no warnings; whenever availableGpus = totalGpus - 1 it answers
\* not-fits with at least one warning.
C13_FitsWhenDemandAvailable ==
    FitChecked =>
        /\ (/\ arg.capacity.availableGpus >= arg.topology.totalGpus
            /\ arg.capacity.availableGpus >= arg.modelMinGpus
            /\ arg.capacity.maxContiguousAvailable
                  >= arg.topology.maxGpusPerPod)
              => (ret.fits /\ ret.warnings = <<>>)
        /\ OneGpuShort => (~ret.fits /\ ret.warnings # <<>>)

\* Exactly as many free GPUs as the topology and the model need.
C13_Witness ==
    /\ FitChecked
    /\ arg.topology.totalGpus = 2
    /\ arg.modelMinGpus = 2
    /\ arg.capacity.availableGpus = 2
    /\ arg.capacity.maxContiguousAvailable >= arg.topology.maxGpusPerPod
    /\ ret.fits
    /\ ret.warnings = <<>>

----------------------------------------------------------------------------
(* Properties of the manifest generator and validator (SpecManifest) *)

Generated == fn = "generateDynamoManifest"

GeneratedServices == ret.spec[1].services[1]

GeneratedArgs ==
    LET worker == CHOOSE k \in DOMAIN GeneratedServices : k \in WorkerKeys
    IN  GeneratedServices[worker].extraPodSpec.mainContainer.args

\* C17: for a config with non-empty name and namespace and engine X, the
\* generated services map has exactly the keys Frontend and the worker key
\* of X (VllmWorker for vllm, SglangWorker for sglang, TrtllmWorker for
\* trtllm), and validateManifest accepts the manifest with no errors.
C17_GeneratedManifestIsValid ==
    (Generated /\ arg.value.name # "" /\ arg.value.namespace # "") =>
        /\ \/ arg.value.engine = "vllm"
              /\ DOMAIN GeneratedServices = {"Frontend", "VllmWorker"}
           \/ arg.value.engine = "sglang"
              /\ DOMAIN GeneratedServices = {"Frontend", "SglangWorker"}
           \/ arg.value.engine = "trtllm"
              /\ DOMAIN GeneratedServices = {"Frontend", "TrtllmWorker"}
        /\ GeneratedServices["Frontend"].componentType = "frontend"
        /\ validateManifest(ret) = [valid |-> TRUE, errors |-> <<>>]

C17_Witness ==
    /\ Generated
    /\ arg.value.name = "demo"
    /\ arg.value.namespace = "kubefoundry-system"
    /\ arg.value.engine = "trtllm"
    /\ DOMAIN GeneratedServices = {"Frontend", "TrtllmWorker"}
    /\ validateManifest(ret).valid

\* The arguments that precede the free-form ones, in the stated order.
StatedLeadingArgs ==
    LET c == arg.value
    IN  <<Word("python3"), Word("-m"), <<"dynamo.", c.engine>>>>
        \o <<Flag("model"), Word(c.modelId)>>
        \o (IF IsSome(c.servedModelName)
               THEN <<Flag("served-model-name"), Word(c.servedModelName[1])>>
               ELSE <<>>)
        \o (IF c.enforceEager THEN <<Flag("enforce-eager")>> ELSE <<>>)
        \o (IF c.enablePrefixCaching
               THEN <<Flag("enable-prefix-caching")>> ELSE <<>>)
        \o (IF c.trustRemoteCode THEN <<Flag("trust-remote-code")>> ELSE <<>>)
        \o (IF IsSome(c.contextLength)
               THEN <<Flag("max-model-len"), Word("4096")>>
               ELSE <<>>)

\* The words of the command line after the leading arguments.
FreeFormArgs ==
    SubSeq(GeneratedArgs, Len(StatedLeadingArgs) + 1, Len(GeneratedArgs))

EntryFlags == [j \in 1..Len(arg.value.engineArgs) |->
                  Flag(arg.value.engineArgs[j].key)]

IsEntryFlag(w) == \E j \in 1..Len(EntryFlags) : EntryFlags[j] = w

Occurs(w, words) == \E j \in 1..Len(words) : words[j] = w

\* C18: the worker's command line is the module invocation, --model <id>,
\* then --served-model-name, --enforce-eager, --enable-prefix-caching,
\* --trust-remote-code and --max-model-len, each present exactly when its
\* option is set, in that order, followed by the free-form engine arguments
\* in their map order.
C18_ArgumentOrder ==
    Generated =>
        /\ Len(GeneratedArgs) >= Len(StatedLeadingArgs)
        /\ SubSeq(GeneratedArgs, 1, Len(StatedLeadingArgs))
              = StatedLeadingArgs
        /\ SelectSeq(FreeFormArgs, IsEntryFlag)
              = SelectSeq(EntryFlags, LAMBDA f : Occurs(f, FreeFormArgs))

\* Every option set and two free-form arguments.
C18_Witness ==
    /\ Generated
    /\ arg.value.servedModelName = Some("qwen")
    /\ arg.value.enforceEager
    /\ arg.value.enablePrefixCaching
    /\ arg.value.trustRemoteCode
    /\ arg.value.contextLength = Some(4096)
    /\ Len(arg.value.engineArgs) = 2
    /\ arg.value.engineArgs[1].key = "seed"
    /\ arg.value.engineArgs[2].key = "enable-chunked-prefill"
    /\ Len(GeneratedArgs) = Len(StatedLeadingArgs) + 3
    /\ GeneratedArgs[Len(GeneratedArgs)] = Flag("enable-chunked-prefill")

\* The one stated rule: `--key` for boolean true, `--key value` otherwise.
StatedEngineArg(entry) ==
    IF entry.value.isBoolean /\ entry.value.text = "true"
       THEN <<Flag(entry.key)>>
       ELSE <<Flag(entry.key), Word(entry.value.text)>>

RECURSIVE StatedEngineArgs(_)
StatedEngineArgs(entries) ==
    IF entries = <<>> THEN <<>>
    ELSE StatedEngineArg(Head(entries)) \o StatedEngineArgs(Tail(entries))

\* C19: every entry (key, value) of the free-form engine arguments
\* contributes exactly one argument to the command line: `--key` when the
\* value is boolean true, `--key value` for every other value.
C19_EveryEntrySerialized ==
    Generated => FreeFormArgs = StatedEngineArgs(arg.value.engineArgs)

Validated == fn = "validateManifest"

Reported(message) ==
    Cardinality({j \in 1..Len(ret.errors) : ret.errors[j] = message}) = 1

HasServices == IsSome(arg.value.spec) /\ IsSome(arg.value.spec[1].services)

HasService(keys) ==
    HasServices /\ keys \cap DOMAIN arg.value.spec[1].services[1] # {}

\* The rules on the identity fields and on the services map itself.
TopLevelRulesReported ==
    /\ Reported(ApiVersionError)
          <=> arg.value.apiVersion # "nvidia.com/v1alpha1"
    /\ Reported(KindError) <=> arg.value.kind # "DynamoGraphDeployment"
    /\ Reported(NameError)
          <=> (~IsSome(arg.value.metadata) \/ arg.value.metadata[1].name = "")
    /\ Reported(NamespaceError)
          <=> (~IsSome(arg.value.metadata)
                  \/ arg.value.metadata[1].namespace = "")
    /\ Reported(ServicesError) <=> ~HasServices

\* C20 as stated: the errors list holds one message for every violated rule
\* (apiVersion, kind, name, namespace, services map, Frontend, worker key),
\* whichever other rules are violated, and valid is true exactly when the
\* list is empty.
C20_EveryViolationReported ==
    Validated =>
        /\ TopLevelRulesReported
        /\ Reported(FrontendError) <=> ~HasService({"Frontend"})
        /\ Reported(WorkerError) <=> ~HasService(WorkerKeys)
        /\ ret.valid <=> (ret.errors = <<>>)

\* C20: the errors list holds one message for every violated rule on
\* apiVersion, kind, name, namespace and the services map, whichever other
\* rules are violated; the Frontend and worker-key rules are evaluated, and
\* reported independently of everything else, only when the services map is
\* present; valid is true exactly when the list is empty.
C20_ViolationsAccumulate ==
    Validated =>
        /\ TopLevelRulesReported
        /\ Reported(FrontendError)
              <=> (HasServices /\ ~HasService({"Frontend"}))
        /\ Reported(WorkerError) <=> (HasServices /\ ~HasService(WorkerKeys))
        /\ ret.valid <=> (ret.errors = <<>>)

\* Six rules violated at once, six messages.
C20_Witness ==
    /\ Validated
    /\ arg.value.apiVersion = "wrong/v1"
    /\ arg.value.kind = "Deployment"
    /\ IsSome(arg.value.metadata)
    /\ arg.value.metadata[1].name = ""
    /\ arg.value.metadata[1].namespace = ""
    /\ HasServices
    /\ DOMAIN arg.value.spec[1].services[1] = {"Planner"}
    /\ Len(ret.errors) = 6
    /\ ~ret.valid

----------------------------------------------------------------------------
(* Properties of the upgrade and install runs (checked under Spec) *)

IndicesOf(kinds) == {k \in 1..Len(log) : log[k].call \in kinds}

UpgradeCalls == CallsOf({"upgrade"})

\* C22: in an upgrade run every repo add precedes the single repo update,
\* which precedes every chart upgrade; charts are upgraded in the declared
\* order; after the first chart upgrade that fails no further chart upgrade
\* is issued.
C22_UpgradeOrder ==
    op = "upgrade" =>
        /\ Cardinality(IndicesOf({"repoUpdate"})) <= 1
        /\ \A a \in IndicesOf({"repoAdd"}), u \in IndicesOf({"repoUpdate"}) :
              a < u
        /\ \A u \in IndicesOf({"repoUpdate"}), c \in IndicesOf({"upgrade"}) :
              u < c
        /\ IndicesOf({"upgrade"}) # {} =>
              /\ Cardinality(IndicesOf({"repoUpdate"})) = 1
              /\ Cardinality(IndicesOf({"repoAdd"})) = Len(repos)
        /\ Len(UpgradeCalls) <= Len(charts)
        /\ \A k \in 1..Len(UpgradeCalls) : UpgradeCalls[k].n = charts[k]
        /\ \A k \in 1..Len(UpgradeCalls) :
              ~UpgradeCalls[k].ok => k = Len(UpgradeCalls)
        /\ (\E k \in 1..Len(UpgradeCalls) : ~UpgradeCalls[k].ok) =>
              (pc = "done" /\ resp.status = 500)

\* Two repos, three charts, the second chart fails: the third is not tried.
C22_Witness ==
    /\ op = "upgrade" /\ pc = "done"
    /\ Len(repos) = 2 /\ Len(charts) = 3
    /\ Len(UpgradeCalls) = 2
    /\ UpgradeCalls[1].ok /\ ~UpgradeCalls[2].ok
    /\ resp.status = 500

\* C23: in an upgrade run the first failing step stops the run whatever its
\* kind: after a failed repo add, repo update or chart upgrade no later repo
\* add, repo update or chart upgrade is issued.
C23_FirstFailureStopsUpgrade ==
    op = "upgrade" =>
        \A j, k \in IndicesOf(ProvisioningCalls) : (j < k) => log[j].ok

\* The check made after the last install step disagrees with the steps.
VerificationMismatch ==
    /\ op = "install"
    /\ AllStepsSucceeded
    /\ log[Len(log)].call = "checkProviderInstallation"
    /\ \/ ~log[Len(log)].status.installed
       \/ ~log[Len(log)].status.operatorRunning

\* C24: when all install steps succeed but the check made afterwards
\* reports the provider as not installed, or its operator as not running,
\* the install request still answers success, with that installationStatus
\* and the step results, never an error.
C24_MismatchIsNotAFailure ==
    VerificationMismatch =>
        /\ resp.status = 200
        /\ resp.success
        /\ resp.hasStatus
        /\ resp.installationStatus = log[Len(log)].status
        /\ resp.hasResults
        /\ resp.errors = <<>>

C24_Witness ==
    /\ VerificationMismatch
    /\ ~log[Len(log)].status.installed
    /\ resp.status = 200
    /\ ~resp.installationStatus.installed
    /\ Len(resp.results) >= 2

----------------------------------------------------------------------------
(* Properties of overlapping installs (checked under SpecRace) *)

ObservedNotInstalled(r) == reqs[r].observed = "notInstalled"

\* C25: concurrent installs of one provider are not mutually excluded: a
\* request that observed installed = false always goes on to provisioning,
\* whatever the other request is doing; it is never turned away or made to
\* wait, so its finished run holds provisioning calls of its own.
C25_NoMutualExclusion ==
    \A r \in Requests :
        /\ ObservedNotInstalled(r) =>
              /\ reqs[r].status \notin {409}
              /\ reqs[r].pc \in {"repoAdd", "repoUpdate", "chart", "result",
                                 "done"}
              /\ reqs[r].pc = "done" =>
                    RaceCallsBy(r, ProvisioningCalls) # <<>>
        /\ reqs[r].pc = "check" => ENABLED RaceCheckInstalled(r)

\* Both requests observed installed = false before either had installed
\* the chart, and both then ran helm install on the same chart.
C25_Witness ==
    /\ ObservedNotInstalled(1)
    /\ ObservedNotInstalled(2)
    /\ RaceCallsBy(1, {"install"}) # <<>>
    /\ RaceCallsBy(2, {"install"}) # <<>>
    /\ RaceCallsBy(1, {"install"})[1].n = RaceCallsBy(2, {"install"})[1].n
    /\ \E a, b \in 1..Len(log) :
          /\ log[a].req = 1 /\ log[a].call = "checkProviderInstallation"
          /\ log[b].req = 2 /\ log[b].call = "checkProviderInstallation"
          /\ \A k \in 1..Len(log) :
                log[k].call \in ProvisioningCalls => (a < k /\ b < k)

----------------------------------------------------------------------------
(* The app: authentication middleware in front of the mounted routes.      *)
(*                                                                         *)
(* A path is a sequence of pieces; the text of the path is the pieces      *)
(* written one after the other.  A piece is a segment ("/" followed by a    *)
(* name, or "/" alone for a trailing slash) or a run of text without a      *)
(* slash that continues the segment before it, so <<"/api", "/settings",    *)
(* "-x">> is the path /api/settings-x.                                      *)

MaxPathPieces == 2

Segments == {"/health", "/cluster", "/status", "/settings", "/oauth",
             "/deployments", "/providers", "/"}
Texts == {"-x"}
Pieces == Segments \cup Texts

PathTails ==
    UNION {{t \in [1..n -> Pieces] : t[1] \in Segments} :
           n \in 1..MaxPathPieces}

\* Paths the '/api/*' middleware is registered for.
ApiPaths == {<<"/api">> \o t : t \in PathTails}

PUBLIC_ROUTES ==
    {<<"/api", "/health">>, <<"/api", "/cluster", "/status">>,
     <<"/api", "/settings">>, <<"/api", "/oauth">>}

\* path.startsWith(prefix)
StartsWith(path, prefix) ==
    /\ Len(path) >= Len(prefix)
    /\ SubSeq(path, 1, Len(prefix)) = prefix

\* path.startsWith(route + '/')
StartsWithSlashAfter(path, route) ==
    /\ Len(path) > Len(route)
    /\ StartsWith(path, route)
    /\ path[Len(route) + 1] \in Segments

\* path.startsWith(route): the check without the separating slash
IsPublicRoutePrefixOnly(path) ==
    \E route \in PUBLIC_ROUTES : StartsWith(path, route)

IsPublicRoute(path) ==
    \E route \in PUBLIC_ROUTES :
        path = route \/ StartsWithSlashAfter(path, route)

Methods == {"GET", "PUT", "POST"}

\* Authorization header: absent, present without the 'Bearer ' prefix,
\* or 'Bearer ' followed by a token.
AuthorizationHeaders == {"none", "basic", "bearer"}

\* updateSettingsSchema: both fields optional strings
SettingsUpdates ==
    [activeProviderId : Optional({"kaito", "unknown"}),
     defaultNamespace : Optional({"prod"})]

\* A request body: a value the schema accepts, or none that it accepts.
Bodies == Optional(SettingsUpdates)

\* The routes mounted on the app, as far as the pieces above can spell
\* them: [method, path, handler].
Route(method, path, handler) ==
    [method |-> method, path |-> path, handler |-> handler]

RouteTable ==
    {Route("GET", <<"/api", "/health">>, "health"),
     Route("GET", <<"/api", "/health", "/status">>, "clusterStatus"),
     Route("GET", <<"/api", "/cluster">>, "health"),
     Route("GET", <<"/api", "/cluster", "/status">>, "clusterStatus"),
     Route("GET", <<"/api", "/settings">>, "getSettings"),
     Route("PUT", <<"/api", "/settings">>, "putSettings"),
     Route("GET", <<"/api", "/settings", "/providers">>, "listProviders"),
     Route("GET", <<"/api", "/deployments">>, "listDeployments"),
     Route("POST", <<"/api", "/deployments">>, "createDeployment")}

Handlers == {r.handler : r \in RouteTable} \cup {"notFound"}

HandlerOf(method, path) ==
    IF \E r \in RouteTable : r.method = method /\ r.path = path
    THEN (CHOOSE r \in RouteTable : r.method = method /\ r.path = path).handler
    ELSE "notFound"

\* configService.setConfig(data): the fields given replace the stored ones
setConfig(stored, data) ==
    [activeProviderId |-> OrElse(data.activeProviderId,
                                 stored.activeProviderId),
     defaultNamespace |-> OrElse(data.defaultNamespace,
                                 stored.defaultNamespace)]

hasProvider(providerId) == providerId \in ProviderIds

Unauthorized == 401

HttpRequests ==
    [authEnabled : BOOLEAN,
     method : Methods,
     path : ApiPaths,
     authorization : AuthorizationHeaders,
     body : Bodies,
     pc : {"middleware"},
     tokenValid : {None},
     user : {None},
     handler : {"none"},
     status : {0}]

Reply(status) == [http EXCEPT !.pc = "done", !.status = status]

\* app.use('/api/*', ...) up to the token validation
AuthMiddleware ==
    /\ http.pc = "middleware"
    /\ IF ~http.authEnabled \/ IsPublicRoute(http.path)
       THEN http' = [http EXCEPT !.pc = "route"]
       ELSE IF http.authorization /= "bearer"
       THEN http' = Reply(Unauthorized)
       ELSE http' = [http EXCEPT !.pc = "validateToken"]
    /\ UNCHANGED <<requestVars, calcVars, reqs, storedConfig, build, form>>

\* await authService.validateToken(token) and what follows it
ValidateToken ==
    /\ http.pc = "validateToken"
    /\ \E valid \in BOOLEAN :
          IF ~valid
          THEN http' = [Reply(Unauthorized) EXCEPT !.tokenValid = Some(FALSE)]
          ELSE http' = [http EXCEPT !.tokenValid = Some(TRUE),
                                    !.user = Some("user"),
                                    !.pc = "route"]
    /\ UNCHANGED <<requestVars, calcVars, reqs, storedConfig, build, form>>

Handled(handler, status) ==
    [http EXCEPT !.pc = "done", !.handler = handler, !.status = status]

\* PUT /api/settings
PutSettings ==
    /\ http.pc = "route"
    /\ HandlerOf(http.method, http.path) = "putSettings"
    /\ IF ~IsSome(http.body)
       THEN /\ http' = Reply(400)
            /\ UNCHANGED storedConfig
       ELSE LET data == http.body[1] IN
            IF /\ IsSome(data.activeProviderId)
               /\ ~hasProvider(data.activeProviderId[1])
            THEN /\ http' = Handled("putSettings", 400)
                 /\ UNCHANGED storedConfig
            ELSE /\ storedConfig' = setConfig(storedConfig, data)
                 /\ http' = Handled("putSettings", 200)
    /\ UNCHANGED <<requestVars, calcVars, reqs, build, form>>

\* Every other mounted handler: it runs and answers; none of them writes
\* the configuration.
OtherHandler ==
    /\ http.pc = "route"
    /\ HandlerOf(http.method, http.path) \notin {"putSettings", "notFound"}
    /\ \E status \in {200, 500} :
          http' = Handled(HandlerOf(http.method, http.path), status)
    /\ UNCHANGED <<requestVars, calcVars, reqs, storedConfig, build, form>>

\* app.notFound
NotFound ==
    /\ http.pc = "route"
    /\ HandlerOf(http.method, http.path) = "notFound"
    /\ http' = Handled("notFound", 404)
    /\ UNCHANGED <<requestVars, calcVars, reqs, storedConfig, build, form>>

DefaultConfig == [activeProviderId |-> "dynamo", defaultNamespace |-> "default"]

InitAuth ==
    /\ NoRequest
    /\ fn = "none"
    /\ arg = <<>>
    /\ ret = <<>>
    /\ reqs = <<>>
    /\ build = <<>>
    /\ form = <<>>
    /\ storedConfig = DefaultConfig
    /\ http \in HttpRequests

NextAuth ==
    AuthMiddleware \/ ValidateToken \/ PutSettings \/ OtherHandler \/ NotFound

SpecAuth == InitAuth /\ [][NextAuth]_vars

----------------------------------------------------------------------------
(* Properties of the authentication middleware (checked under SpecAuth) *)

\* The request carried a 'Bearer ' token and validateToken accepted it.
Authenticated ==
    /\ http.authorization = "bearer"
    /\ http.tokenValid = Some(TRUE)

\* The public routes as stated: the four paths themselves and every path
\* that goes on with a '/' after one of them.
StatedPublicPaths ==
    {p \in ApiPaths :
        \E route \in {<<"/api", "/health">>, <<"/api", "/cluster", "/status">>,
                      <<"/api", "/settings">>, <<"/api", "/oauth">>} :
            \/ p = route
            \/ \E n \in 1..Len(p) :
                  /\ n > Len(route)
                  /\ [k \in 1..Len(route) |-> p[k]] = route
                  /\ p[Len(route) + 1] \in Segments}

\* The middleware's verdict matters: authentication on, path not public.
Guarded == http.authEnabled /\ http.path \notin StatedPublicPaths

\* C26: with authentication enabled, a request to a path that is not a
\* public route reaches a handler only with a 'Bearer ' token that
\* validation accepted; otherwise it ends with 401 and no handler ran.
\* With authentication disabled no request is answered by the middleware:
\* every finished request was handled.
C26_OnlyAuthenticatedReachHandlers ==
    /\ (Guarded /\ http.handler /= "none") => Authenticated
    /\ (Guarded /\ http.pc = "done" /\ ~Authenticated)
          => (http.status = Unauthorized /\ http.handler = "none")
    /\ (Guarded /\ http.pc = "route") => Authenticated
    /\ (~http.authEnabled /\ http.pc = "done")
          => (http.status /= Unauthorized /\ http.tokenValid = None)

\* A request for /api/settings-x (not a public route although its text
\* begins with one) without a token was turned away with 401.
C26_Witness ==
    /\ http.authEnabled
    /\ http.path = <<"/api", "/settings", "-x">>
    /\ http.authorization = "none"
    /\ http.pc = "done"
    /\ http.status = Unauthorized

\* C27: with authentication enabled, the stored configuration changes only
\* in a step of a request that carried a valid bearer token.
C27_UnauthenticatedCannotWrite ==
    [][(http.authEnabled /\ storedConfig' /= storedConfig)
          => Authenticated]_vars

----------------------------------------------------------------------------
(* AikitService.buildImage (services/aikit.ts)                             *)
(*                                                                         *)
(* One run of buildImage: build.pc is the await it is at, build.calls the  *)
(* calls it made to registryService and buildKitService with what each of  *)
(* them did, build.result what buildImage returned.  Every call to a       *)
(* collaborator may answer or throw.                                       *)

PREMADE_MODELS ==
    {[id |-> "llama3.2:1b", image |-> "ghcr.io/kaito-project/aikit/llama3.2:1b"],
     [id |-> "llama3.2:3b", image |-> "ghcr.io/kaito-project/aikit/llama3.2:3b"]}

getPremadeModel(modelId) ==
    IF \E m \in PREMADE_MODELS : m.id = modelId
    THEN Some(CHOOSE m \in PREMADE_MODELS : m.id = modelId)
    ELSE None

\* File names are <<stem, extension>>; <<>> is the empty string.
GgufFiles == {<<>>, <<"model.Q4_K_M", ".gguf">>, <<"model", ".bin">>}

EndsWithGguf(file) == file /= <<>> /\ file[Len(file)] = ".gguf"

\* !x for an optional string: absent or empty
Falsy(opt) == ~IsSome(opt) \/ opt[1] = ""

\* The same for an optional file name
FalsyFile(opt) == ~IsSome(opt) \/ opt[1] = <<>>

BuildRequests ==
    [modelSource : {"premade", "huggingface", "other"},
     premadeModel : Optional({"", "llama3.2:1b", "llama3.2:3b",
                              "no-such-model"}),
     modelId : Optional({"", "TheBloke/Llama-2-7B-Chat-GGUF"}),
     ggufFile : Optional(GgufFiles)]

\* validateBuildRequest(request).errors
validateBuildRequest(request) ==
    IF request.modelSource = "premade"
    THEN IF Falsy(request.premadeModel)
         THEN <<"premadeModel is required">>
         ELSE IF getPremadeModel(request.premadeModel[1]) = None
         THEN <<"Unknown premade model">>
         ELSE <<>>
    ELSE IF request.modelSource = "huggingface"
    THEN When(Falsy(request.modelId), "modelId is required")
         \o When(FalsyFile(request.ggufFile), "ggufFile is required")
         \o When(~FalsyFile(request.ggufFile)
                    /\ ~EndsWithGguf(request.ggufFile[1]),
                 "ggufFile must be a .gguf file")
    ELSE <<"modelSource must be either premade or huggingface">>

\* An image reference is a sequence of pieces of text, <<>> the empty
\* string.
EmptyRef == <<>>

\* registryService.getKubeletImageRef(imageName, imageTag) for the name
\* and tag derived from the model id and the file
kubeletImageRef(request) ==
    <<"kubelet-registry/", "aikit-", request.modelId[1], ":",
      request.ggufFile[1][1]>>

BuildResult(success, imageRef, buildTime, error, wasPremade) ==
    [success |-> success, imageRef |-> imageRef, buildTime |-> buildTime,
     error |-> error, wasPremade |-> wasPremade]

\* (Date.now() - startTime) / 1000
ElapsedTimes == {0, 42}

\* What a collaborator's call can do.
Outcomes == {"ok", "failed", "throws"}

\* Whether the onStream callback was passed, and whether it throws.
StreamCallbacks == {"absent", "writes", "throws"}

Returned(result) == [build EXCEPT !.pc = "done", !.result = Some(result)]

Called(b, call, outcome) ==
    [b EXCEPT !.calls = Append(@, [call |-> call, outcome |-> outcome])]

\* The catch block
Caught(b, buildTime) ==
    [b EXCEPT !.pc = "done",
              !.result = Some(BuildResult(FALSE, EmptyRef, buildTime,
                                          Some("exception"), FALSE))]

\* A premade request that is sent to the builder like any other
NeedsBuildAlways(request) == TRUE

NeedsBuild(request) == request.modelSource /= "premade"

\* A readiness check that lets a not-ready status pass
ReadyRegardless(outcome) == TRUE

Ready(outcome) == outcome = "ok"

\* Validation and the premade branch
BuildStart ==
    /\ build /= <<>>
    /\ build.pc = "start"
    /\ LET request == build.request
           errors == validateBuildRequest(request)
       IN  IF errors /= <<>>
           THEN build' = Returned(BuildResult(FALSE, EmptyRef, 0,
                                   Some("Invalid build request"), FALSE))
           ELSE IF ~NeedsBuild(request)
           THEN LET model == getPremadeModel(request.premadeModel[1])
                IN  IF model = None
                    THEN build' = Returned(BuildResult(FALSE, EmptyRef, 0,
                                     Some("Unknown premade model"), TRUE))
                    ELSE build' = Returned(BuildResult(TRUE, <<model[1].image>>,
                                                       0, None, TRUE))
           ELSE build' = [build EXCEPT !.pc = "ensureRegistry"]
    /\ UNCHANGED <<requestVars, calcVars, reqs, http, storedConfig, form>>

\* await registryService.ensureRegistry()
EnsureRegistry ==
    /\ build /= <<>>
    /\ build.pc = "ensureRegistry"
    /\ \E outcome \in Outcomes, elapsed \in ElapsedTimes :
          LET b == Called(build, "ensureRegistry", outcome)
          IN  IF outcome = "throws"
              THEN build' = Caught(b, elapsed)
              ELSE IF ~Ready(outcome)
              THEN build' = [b EXCEPT !.pc = "done",
                                !.result = Some(BuildResult(FALSE, EmptyRef, 0,
                                     Some("Registry not ready"), FALSE))]
              ELSE build' = [b EXCEPT !.pc = "ensureBuilder"]
    /\ UNCHANGED <<requestVars, calcVars, reqs, http, storedConfig, form>>

\* await buildKitService.ensureBuilder(onStream), then the preparation of
\* the build up to the call of buildKitService.build
EnsureBuilder ==
    /\ build /= <<>>
    /\ build.pc = "ensureBuilder"
    /\ \E outcome \in Outcomes, elapsed \in ElapsedTimes :
          LET b == Called(build, "ensureBuilder", outcome)
          IN  IF outcome = "throws"
              THEN build' = Caught(b, elapsed)
              ELSE IF ~Ready(outcome)
              THEN build' = [b EXCEPT !.pc = "done",
                                !.result = Some(BuildResult(FALSE, EmptyRef, 0,
                                     Some("Builder not ready"), FALSE))]
              ELSE IF build.onStream = "throws"
              THEN build' = Caught(b, elapsed)
              ELSE build' = [b EXCEPT !.pc = "build"]
    /\ UNCHANGED <<requestVars, calcVars, reqs, http, storedConfig, form>>

\* await buildKitService.build(...)
Build ==
    /\ build /= <<>>
    /\ build.pc = "build"
    /\ \E outcome \in Outcomes, elapsed \in ElapsedTimes :
          LET b == Called(build, "build", outcome)
          IN  IF outcome = "throws"
              THEN build' = Caught(b, elapsed)
              ELSE IF outcome = "failed"
              THEN build' = [b EXCEPT !.pc = "done",
                                !.result = Some(BuildResult(FALSE, EmptyRef, elapsed,
                                     Some("Build failed"), FALSE))]
              ELSE build' = [b EXCEPT !.pc = "done",
                                !.result = Some(BuildResult(TRUE,
                                     kubeletImageRef(build.request), elapsed,
                                     None, FALSE))]
    /\ UNCHANGED <<requestVars, calcVars, reqs, http, storedConfig, form>>

InitBuild ==
    /\ NoRequest
    /\ fn = "none"
    /\ arg = <<>>
    /\ ret = <<>>
    /\ reqs = <<>>
    /\ http = <<>>
    /\ storedConfig = <<>>
    /\ form = <<>>
    /\ build \in [request : BuildRequests,
                  onStream : StreamCallbacks,
                  pc : {"start"},
                  calls : {<<>>},
                  result : {None}]

NextBuild == BuildStart \/ EnsureRegistry \/ EnsureBuilder \/ Build

SpecBuild == InitBuild /\ [][NextBuild]_vars

----------------------------------------------------------------------------
(* Properties of buildImage (checked under SpecBuild) *)

KnownPremade ==
    /\ build.request.modelSource = "premade"
    /\ IsSome(build.request.premadeModel)
    /\ \E m \in PREMADE_MODELS : m.id = build.request.premadeModel[1]

\* C21: for a premade request naming a known model, buildImage makes no
\* call to the registry setup, the builder setup or the build, and what it
\* returns is success with that model's image, buildTime 0, wasPremade.
C21_PremadeWithoutBuilding ==
    KnownPremade =>
        /\ build.calls = <<>>
        /\ build.pc \in {"start", "done"}
        /\ build.pc = "done" =>
              /\ IsSome(build.result)
              /\ build.result[1].success
              /\ \E m \in PREMADE_MODELS :
                    /\ m.id = build.request.premadeModel[1]
                    /\ build.result[1].imageRef = <<m.image>>
              /\ build.result[1].buildTime = 0
              /\ build.result[1].wasPremade

C21_Witness ==
    /\ build.request.modelSource = "premade"
    /\ build.request.premadeModel = Some("llama3.2:3b")
    /\ build.pc = "done"
    /\ build.result[1].imageRef = <<"ghcr.io/kaito-project/aikit/llama3.2:3b">>

\* The request passes validateBuildRequest as a HuggingFace request.
ValidHuggingFace ==
    /\ build.request.modelSource = "huggingface"
    /\ IsSome(build.request.modelId) /\ build.request.modelId[1] /= ""
    /\ IsSome(build.request.ggufFile)
    /\ build.request.ggufFile[1] /= <<>>
    /\ build.request.ggufFile[1][2] = ".gguf"

CallNames == [k \in 1..Len(build.calls) |-> build.calls[k].call]

\* C28: for a valid HuggingFace request the calls made are a prefix of
\* ensureRegistry, ensureBuilder, build, each made only after the one
\* before it reported ready; a run in which some call did not succeed
\* (not ready, failed, or threw) returned success = false with an empty
\* imageRef, and every finished run returned a result.
C28_BuildOrder ==
    ValidHuggingFace =>
        /\ \E n \in 0..3 :
              CallNames = SubSeq(<<"ensureRegistry", "ensureBuilder",
                                   "build">>, 1, n)
        /\ \A k \in 1..Len(build.calls) :
              k < Len(build.calls) => build.calls[k].outcome = "ok"
        /\ build.pc = "done" =>
              /\ IsSome(build.result)
              /\ build.result[1].success <=>
                    /\ Len(build.calls) = 3
                    /\ \A k \in 1..3 : build.calls[k].outcome = "ok"
              /\ build.result[1].success => build.result[1].imageRef /= <<>>
              /\ ~build.result[1].success => build.result[1].imageRef = <<>>

\* The registry and the builder were ready and the build threw.
C28_Witness ==
    /\ ValidHuggingFace
    /\ build.pc = "done"
    /\ CallNames = <<"ensureRegistry", "ensureBuilder", "build">>
    /\ build.calls[3].outcome = "throws"
    /\ ~build.result[1].success

----------------------------------------------------------------------------
(* The frontend's local estimate against the backend's (SpecCost) *)

\* The backend's estimate for the same input without a cloud provider and
\* without cost settings.
BackendEstimate ==
    calculateCostEstimate([arg.input EXCEPT !.cloudProvider = None], None)

LocalEstimateMade == fn = "calculateLocalCostEstimate"

\* C29: the local estimate has the resources, baselineGpus, additionalGpus,
\* gpuMultiplier and percentageIncrease of the backend's estimate for the
\* same input without a cloud provider, and neither has actual costs.
C29_LocalMirrorsBackend ==
    LocalEstimateMade =>
        /\ ret.resources = BackendEstimate.resources
        /\ ret.baselineGpus = BackendEstimate.baselineGpus
        /\ ret.additionalGpus = BackendEstimate.additionalGpus
        /\ ret.gpuMultiplier = BackendEstimate.gpuMultiplier
        /\ ret.percentageIncrease = BackendEstimate.percentageIncrease
        /\ ~ret.hasActualCosts
        /\ ~BackendEstimate.hasActualCosts

\* A disaggregated topology with the prefill fields omitted, two replicas
\* and a custom rate that has nowhere to apply.
C29_Witness ==
    /\ LocalEstimateMade
    /\ arg.input.mode = "disaggregated"
    /\ arg.input.replicas = 2
    /\ arg.input.prefillReplicas = None
    /\ arg.input.prefillGpus = None
    /\ arg.input.decodeGpus = Some(4)
    /\ arg.input.gpusPerReplica = 1
    /\ arg.input.customHourlyRate = Some(150)
    /\ ret.resources.totalGpus = 5

----------------------------------------------------------------------------
(* The deployment form (frontend/components/deployments/DeploymentForm)    *)
(*                                                                         *)
(* form holds the props the component was rendered with (the model's       *)
(* engines, the runtimes with their installed flags, whether the model     *)
(* needs HuggingFace authentication, the premade model matching the        *)
(* model), its state (selected runtime, selected premade model, whether    *)
(* the required text fields are filled), the status of the                 *)
(* createDeployment mutation, and the calls of createDeployment.mutateAsync *)
(* made so far, each with the state it was made in.                        *)

MaxSubmissions == 2

RuntimeOrder == <<"dynamo", "kuberay", "kaito">>
RuntimeIds == {RuntimeOrder[k] : k \in 1..Len(RuntimeOrder)}

RUNTIME_ENGINES ==
    [dynamo |-> {"vllm", "sglang", "trtllm"},
     kuberay |-> {"vllm"},
     kaito |-> {}]

isRuntimeCompatible(runtimeId, modelEngines) ==
    IF "llamacpp" \in modelEngines
       THEN runtimeId = "kaito"
       ELSE modelEngines \cap RUNTIME_ENGINES[runtimeId] /= {}

\* runtimes?.find(r => r.id === runtime)?.installed ?? false
InstalledIn(runtimes, runtime) == IsSome(runtimes) /\ runtimes[1][runtime]

\* The first runtime of the order that is in `ok`, "none" when none is.
FirstRuntime(ok) ==
    IF \A k \in 1..Len(RuntimeOrder) : RuntimeOrder[k] \notin ok
       THEN "none"
       ELSE RuntimeOrder[CHOOSE k \in 1..Len(RuntimeOrder) :
                            /\ RuntimeOrder[k] \in ok
                            /\ \A j \in 1..(k - 1) : RuntimeOrder[j] \notin ok]

getDefaultRuntime(runtimes, modelEngines) ==
    LET compatible ==
            {rt \in RuntimeIds : isRuntimeCompatible(rt, modelEngines)}
        installedCompatible ==
            {rt \in compatible : InstalledIn(runtimes, rt)}
    IN  IF ~IsSome(runtimes)
           THEN IF "llamacpp" \in modelEngines THEN "kaito" ELSE "dynamo"
        ELSE IF FirstRuntime(installedCompatible) /= "none"
           THEN FirstRuntime(installedCompatible)
        ELSE IF FirstRuntime(compatible) /= "none"
           THEN FirstRuntime(compatible)
        ELSE "dynamo"

\* createDeployment.status and createDeployment.isProcessing
MutationStatuses == {"idle", "validating", "submitting", "success", "error"}

isProcessing(status) == status \in {"validating", "submitting"}

isRuntimeInstalled == InstalledIn(form.runtimes, form.selectedRuntime)

isKaitoConfigValid ==
    form.selectedRuntime /= "kaito" \/ IsSome(form.selectedPremadeModel)

\* The `disabled` attribute of the submit button
SubmitDisabled ==
    \/ isProcessing(form.status)
    \/ (form.needsHfAuth /\ form.selectedRuntime /= "kaito")
    \/ ~isRuntimeInstalled
    \/ ~isKaitoConfigValid

Forms ==
    {f \in [supportedEngines : {{"vllm"}, {"llamacpp"}},
            runtimes : Optional([RuntimeIds -> BOOLEAN]),
            needsHfAuth : BOOLEAN,
            matchingPremade : Optional({"llama3.2:1b"}),
            selectedRuntime : RuntimeIds,
            selectedPremadeModel : {None},
            requiredFilled : {TRUE},
            status : {"idle"},
            submissions : {<<>>}] :
        f.selectedRuntime = getDefaultRuntime(f.runtimes, f.supportedEngines)}

\* Effect: select the premade model that matches the model shown
AutoSelectPremade ==
    /\ form /= <<>>
    /\ IsSome(form.matchingPremade)
    /\ ~IsSome(form.selectedPremadeModel)
    /\ form' = [form EXCEPT !.selectedPremadeModel = form.matchingPremade]
    /\ UNCHANGED <<requestVars, calcVars, reqs, http, storedConfig, build>>

\* Click on a runtime card
handleRuntimeChange(runtime) ==
    /\ form /= <<>>
    /\ IsSome(form.runtimes)
    /\ isRuntimeCompatible(runtime, form.supportedEngines)
    /\ form' = [form EXCEPT
                  !.selectedRuntime = runtime,
                  !.selectedPremadeModel =
                      IF runtime /= "kaito" THEN None ELSE @]
    /\ UNCHANGED <<requestVars, calcVars, reqs, http, storedConfig, build>>

\* Typing in the required name / namespace inputs: emptied or filled again
EditRequiredField ==
    /\ form /= <<>>
    /\ form' = [form EXCEPT !.requiredFilled = ~@]
    /\ UNCHANGED <<requestVars, calcVars, reqs, http, storedConfig, build>>

\* handleSubmit up to its await: createDeployment.mutateAsync(deployConfig)
handleSubmit(trigger) ==
    /\ Len(form.submissions) < MaxSubmissions
    /\ form' = [form EXCEPT
                  !.status = "validating",
                  !.submissions =
                      Append(@, [trigger |-> trigger,
                                 provider |-> form.selectedRuntime,
                                 installed |-> isRuntimeInstalled,
                                 premadeModel |-> form.selectedPremadeModel,
                                 inProgress |-> isProcessing(form.status)])]
    /\ UNCHANGED <<requestVars, calcVars, reqs, http, storedConfig, build>>

\* Click on the submit button: the submit event, if the button is enabled
\* and the required inputs pass the browser's validation
ClickSubmit ==
    /\ form /= <<>>
    /\ ~SubmitDisabled
    /\ form.requiredFilled
    /\ handleSubmit("button")

\* Cmd/Ctrl+Enter: formRef.current?.requestSubmit(), which validates the
\* inputs and fires the submit event without going through the button
ShortcutSubmit ==
    /\ form /= <<>>
    /\ ~isProcessing(form.status)
    /\ ~form.needsHfAuth
    /\ form.requiredFilled
    /\ handleSubmit("shortcut")

\* The mutation moves on: validated, then accepted or rejected
MutationProgress ==
    /\ form /= <<>>
    /\ \/ /\ form.status = "validating"
          /\ \E next \in {"submitting", "error"} :
                form' = [form EXCEPT !.status = next]
       \/ /\ form.status = "submitting"
          /\ \E next \in {"success", "error"} :
                form' = [form EXCEPT !.status = next]
    /\ UNCHANGED <<requestVars, calcVars, reqs, http, storedConfig, build>>

InitForm ==
    /\ NoRequest
    /\ fn = "none"
    /\ arg = <<>>
    /\ ret = <<>>
    /\ reqs = <<>>
    /\ http = <<>>
    /\ storedConfig = <<>>
    /\ build = <<>>
    /\ form \in Forms

NextForm ==
    \/ AutoSelectPremade
    \/ \E runtime \in RuntimeIds : handleRuntimeChange(runtime)
    \/ EditRequiredField
    \/ ClickSubmit
    \/ ShortcutSubmit
    \/ MutationProgress

SpecForm == InitForm /\ [][NextForm]_vars

----------------------------------------------------------------------------
(* Properties of the deployment form (checked under SpecForm) *)

\* C30: every call of createDeployment was made with the selected runtime
\* installed, with a premade model selected if the runtime is KAITO, and
\* with no submission in progress, whichever way it was triggered.
C30_SubmitOnlyWhenReady ==
    \A k \in 1..Len(form.submissions) :
        LET made == form.submissions[k]
        IN  /\ made.installed
            /\ made.provider = "kaito" => IsSome(made.premadeModel)
            /\ ~made.inProgress
====
